---- MODULE Spec2Model ----
(***************************************************************************)
(* A model of the Sudoku engine of useSudokuGame (src/src/services/api.ts, *)
(* lines 52-615): the constraint checker isValidMove, the backtracking     *)
(* solver solveGrid, the invalid-cell scan getInvalidCells, the hint       *)
(* derivation getHint and the puzzle generator generateSudokuPuzzle.       *)
(*                                                                         *)
(* A grid is a function Idx -> Idx -> 0..9 with 0-based indices as in the  *)
(* source; the empty cell (null in the source) is Null.                    *)
(***************************************************************************)
EXTENDS Integers, Sequences, FiniteSets, TLC

Null == 0

\* The value parseInt returns for a string that starts with no number; it
\* stands outside the range of every number the model parses.
NaN == 1000

\* a === b on numbers: false whenever an operand is NaN.
strictEquals(a, b) == a # NaN /\ b # NaN /\ a = b
\* The solver machine runs at most 16 + 4^SolveFuel steps.
SolveFuel == 8
Idx == 0..8
Digits == 1..9
Cells == Idx \X Idx

EmptyGrid == [r \in Idx |-> [c \in Idx |-> Null]]

\* createValidSolvedGrid of the test suite: the canonical solved grid.
CanonicalRows ==
  << <<5, 3, 4, 6, 7, 8, 9, 1, 2>>,
     <<6, 7, 2, 1, 9, 5, 3, 4, 8>>,
     <<1, 9, 8, 3, 4, 2, 5, 6, 7>>,
     <<8, 5, 9, 7, 6, 1, 4, 2, 3>>,
     <<4, 2, 6, 8, 5, 3, 7, 9, 1>>,
     <<7, 1, 3, 9, 2, 4, 8, 5, 6>>,
     <<9, 6, 1, 5, 3, 7, 2, 8, 4>>,
     <<2, 8, 7, 4, 1, 9, 6, 3, 5>>,
     <<3, 4, 5, 2, 8, 6, 1, 7, 9>> >>

createValidSolvedGrid == [r \in Idx |-> [c \in Idx |-> CanonicalRows[r + 1][c + 1]]]

\* isValidMove without its box scan (lines 300-306 dropped).
isValidMove_NoBox(grid, row, col, num) ==
  /\ \A x \in Idx : grid[row][x] # num
  /\ \A x \in Idx : grid[x][col] # num

\* isValidMove skipping the cell (row, col) itself in each scan.
isValidMove_SkipSelf(grid, row, col, num) ==
  LET startRow == (row \div 3) * 3
      startCol == (col \div 3) * 3
  IN  /\ \A x \in Idx \ {col} : grid[row][x] # num
      /\ \A x \in Idx \ {row} : grid[x][col] # num
      /\ \A i \in 0..2 : \A j \in 0..2 :
            <<startRow + i, startCol + j>> = <<row, col>> \/ grid[startRow + i][startCol + j] # num

\* isValidMove without its column scan (lines 296-298 dropped).
isValidMove_NoCol(grid, row, col, num) ==
  LET startRow == (row \div 3) * 3
      startCol == (col \div 3) * 3
  IN  /\ \A x \in Idx : grid[row][x] # num
      /\ \A i \in 0..2 : \A j \in 0..2 : grid[startRow + i][startCol + j] # num

\* isValidMove(grid, row, col, num): the three scans of the source, each over
\* every cell of the unit, the cell (row, col) itself included.
\* With num NaN no comparison === num is true and every scan passes.
isValidMove(grid, row, col, num) ==
  LET startRow == (row \div 3) * 3
      startCol == (col \div 3) * 3
  IN  \/ num = NaN
      \/ /\ \A x \in Idx : grid[row][x] # num
         /\ \A x \in Idx : grid[x][col] # num
         /\ \A i \in 0..2 : \A j \in 0..2 : grid[startRow + i][startCol + j] # num

\* With no empty cell the scan reports cell (0,0).
firstEmpty_Origin(grid) ==
  LET empties == {i \in 0..80 : grid[i \div 9][i % 9] = Null}
  IN  IF empties = {} THEN <<0, 0>>
      ELSE LET i == CHOOSE k \in empties : \A m \in empties : k <= m
           IN  <<i \div 9, i % 9>>

\* The first empty cell in row-major order, as the two nested for loops of
\* solveGrid and getHint find it; <<9, 9>> when the scan runs off the grid.
firstEmpty(grid) ==
  LET empties == {i \in 0..80 : grid[i \div 9][i % 9] = Null}
  IN  IF empties = {} THEN <<9, 9>>
      ELSE LET i == CHOOSE k \in empties : \A m \in empties : k <= m
           IN  <<i \div 9, i % 9>>

\* The digit loop takes the largest digit that passes instead of the smallest.
nextValid_Largest(grid, row, col, num) ==
  IF \E n \in num..9 : isValidMove(grid, row, col, n)
  THEN CHOOSE n \in num..9 : /\ isValidMove(grid, row, col, n)
                             /\ \A m \in (n + 1)..9 : ~isValidMove(grid, row, col, m)
  ELSE 10

\* The digit loop stops before 9.
nextValid_Below9(grid, row, col, num) ==
  IF \E n \in num..8 : isValidMove(grid, row, col, n)
  THEN CHOOSE n \in num..8 : /\ isValidMove(grid, row, col, n)
                             /\ \A m \in num..(n - 1) : ~isValidMove(grid, row, col, m)
  ELSE 10

\* The next digit from num on that passes isValidMove at (row, col), 10 when
\* there is none: the digits the for loop skips without touching the grid.
nextValid(grid, row, col, num) ==
  IF \E n \in num..9 : isValidMove(grid, row, col, n)
  THEN CHOOSE n \in num..9 : /\ isValidMove(grid, row, col, n)
                             /\ \A m \in num..(n - 1) : ~isValidMove(grid, row, col, m)
  ELSE 10

\* solveGrid mutates its argument in place and recurses once per placed digit.
\* The model runs the recursion as a machine over an explicit call stack: one
\* frame <<row, col, num>> per active call that has placed num at (row, col),
\* and mode "call" (a call starts its scan), "true" or "false" (a call has
\* returned that value to the frame on top of the stack).
solveStart(grid) == [grid |-> grid, stack |-> <<>>, mode |-> "call", depth |-> 0]

solveDone(s) == s.mode # "call" /\ s.stack = <<>>

\* The digit loop of the call at (row, col), resumed at digit num, under the
\* callers in stack: the next valid digit is placed and solveGrid is called
\* again (line 277-278); with no digit left the call returns false (line 284).
digitLoop(s, stack, grid, row, col, num) ==
  LET n == nextValid(grid, row, col, num)
  IN  IF n > 9
      THEN [s EXCEPT !.grid = grid, !.stack = stack, !.mode = "false"]
      ELSE [s EXCEPT !.grid = [grid EXCEPT ![row][col] = n],
                     !.stack = Append(stack, <<row, col, n>>),
                     !.mode = "call",
                     !.depth = IF Len(stack) + 1 > s.depth THEN Len(stack) + 1 ELSE s.depth]

\* grid[row][col] = null after a failed recursive call (line 281).
retract_Skip(grid, row, col) == grid

retract(grid, row, col) == [grid EXCEPT ![row][col] = Null]

solveStep(s) ==
  IF s.mode = "call"
  THEN LET e == firstEmpty(s.grid)
       IN  IF e = <<9, 9>>
           THEN [s EXCEPT !.mode = "true"]                          \* line 288
           ELSE digitLoop(s, s.stack, s.grid, e[1], e[2], 1)        \* line 275
  ELSE LET f == s.stack[Len(s.stack)]
           callers == SubSeq(s.stack, 1, Len(s.stack) - 1)
       IN  IF s.mode = "true"
           THEN [s EXCEPT !.stack = callers]                        \* line 279
           ELSE digitLoop(s, callers,                               \* line 281
                          retract(s.grid, f[1], f[2]), f[1], f[2], f[3] + 1)

\* Up to 4^k steps of the machine from s, where the outermost call has not
\* returned, stopping when it has: four runs of up to 4^(k-1) steps each,
\* solveThen3, solveThen2 and solveThen1 going on from the state a that the
\* first, the second and the third of them has reached.  The tests of
\* a.mode and a.stack are solveDone(a).
RECURSIVE solveRun(_, _)
solveThen1(a, k) ==
  IF a.mode = "call" THEN solveRun(a, k)
  ELSE IF a.stack = <<>> THEN a ELSE solveRun(a, k)

solveThen2(a, k) ==
  IF a.mode = "call" THEN solveThen1(solveRun(a, k), k)
  ELSE IF a.stack = <<>> THEN a ELSE solveThen1(solveRun(a, k), k)

solveThen3(a, k) ==
  IF a.mode = "call" THEN solveThen2(solveRun(a, k), k)
  ELSE IF a.stack = <<>> THEN a ELSE solveThen2(solveRun(a, k), k)

solveRun(s, k) ==
  IF k = 0 THEN solveStep(s) ELSE solveThen3(solveRun(s, k - 1), k - 1)

\* The run of the machine from s: up to 16 steps, which end the run on a
\* grid with few empty cells, then up to 4^SolveFuel more.
solveFrom(s) == IF solveDone(s) THEN s ELSE solveThen1(solveRun(s, 2), SolveFuel)

\* solveGrid(grid): ok is the value returned, grid the argument's content on
\* return, depth the deepest nesting of calls below the outermost one, done
\* whether the run ended within 16 + 4^SolveFuel steps.
solveGrid(grid) ==
  LET s == solveFrom(solveStart(grid))
  IN  [ok |-> s.mode = "true", grid |-> s.grid, depth |-> s.depth, done |-> solveDone(s)]

(***************************************************************************)
(* getInvalidCells (lines 311-379), on the board it reads from gameState.  *)
(***************************************************************************)
\* `${row}-${col}`: the entry pushed for a cell.
cellKey(p) == ToString(p[1]) \o "-" \o ToString(p[2])

\* The cells of each unit in the order the loops visit them.
rowUnit(row) == [k \in 1..9 |-> <<row, k - 1>>]
colUnit(col) == [k \in 1..9 |-> <<k - 1, col>>]
boxUnit(boxRow, boxCol) ==
  [k \in 1..9 |-> <<boxRow * 3 + ((k - 1) \div 3), boxCol * 3 + ((k - 1) % 3)>>]

\* The 27 units in scan order: rows, then columns, then boxes.
scanUnits ==
  [u \in 1..27 |->
     IF u <= 9 THEN rowUnit(u - 1)
     ELSE IF u <= 18 THEN colUnit(u - 10)
     ELSE boxUnit((u - 19) \div 3, (u - 19) % 3)]

\* Only the repeated occurrence itself is marked.
marked_OnlyRepeat(b, U, k) == <<cellKey(U[k])>>

\* The inner loop run when the value at U[k] was seen before: every cell of
\* the unit that holds this value is pushed (lines 322-326, 341-345, 362-368).
marked(b, U, k) ==
  LET same == SelectSeq(U, LAMBDA p : strictEquals(b[p[1]][p[2]], b[U[k][1]][U[k][2]]))
  IN  [i \in 1..Len(same) |-> cellKey(same[i])]

\* The scan of one unit from its k-th cell on, with the Set seen as it
\* stands: the entries this unit pushes onto invalid, in order.
RECURSIVE scanUnit(_, _, _, _)
scanUnit(b, U, k, seen) ==
  CASE k > 9 -> <<>>
    [] k <= 9 /\ b[U[k][1]][U[k][2]] = Null -> scanUnit(b, U, k + 1, seen)
    [] k <= 9 /\ b[U[k][1]][U[k][2]] # Null /\ b[U[k][1]][U[k][2]] \in seen ->
         marked(b, U, k) \o scanUnit(b, U, k + 1, seen)
    [] k <= 9 /\ b[U[k][1]][U[k][2]] # Null /\ b[U[k][1]][U[k][2]] \notin seen ->
         scanUnit(b, U, k + 1, seen \cup {b[U[k][1]][U[k][2]]})

\* The entries the n units from the u-th on push onto invalid, in order,
\* each unit scanned with a fresh Set seen: those of the first half of the
\* units, then those of the rest.
RECURSIVE scanFrom(_, _, _)
scanFrom(b, u, n) ==
  IF n = 1 THEN scanUnit(b, scanUnits[u], 1, {})
  ELSE scanFrom(b, u, n \div 2) \o scanFrom(b, u + n \div 2, n - n \div 2)

\* The array returned as it is, repeated entries kept.
arrayFromSet_Keep(a) == a

\* Array.from(new Set(a)): the entries of a in order of first occurrence.
arrayFromSet(a) ==
  LET firsts == {i \in 1..Len(a) : \A j \in 1..(i - 1) : a[j] # a[i]}
      nth(k) == CHOOSE i \in firsts : Cardinality({j \in firsts : j < i}) = k - 1
  IN  [k \in 1..Cardinality(firsts) |-> a[nth(k)]]

getInvalidCells(b) == arrayFromSet(scanFrom(b, 1, 27))

(***************************************************************************)
(* getHint (lines 442-474).  The grids it handles are objects: mem maps    *)
(* the object names to their contents, "board" and "puzzle" being the      *)
(* grids of gameState and "boardCopy" and "tempBoard" the copies getHint   *)
(* makes; a local variable holds the name of the object it refers to.      *)
(***************************************************************************)
maxHints == 10
baseHintPenalty == 3
hintPenaltyIncrement == 1

\* getHint's loops run at most 4^HintFuel iterations (81 cells, 9 digits each).
HintFuel == 4

NoHint == [null |-> TRUE]

\* No copy is made: the variable refers to the object src itself.
mapCopy_Alias(mem, src, dst) == [mem |-> mem, ref |-> src]

\* src.map(r => [...r]): a new object dst with the content of src, and the
\* reference to it.
mapCopy(mem, src, dst) == [mem |-> [mem EXCEPT ![dst] = mem[src]], ref |-> dst]

hintStart(b, p) ==
  [mem |-> [o \in {"board", "puzzle", "boardCopy", "tempBoard"} |->
              IF o = "board" THEN b ELSE IF o = "puzzle" THEN p ELSE EmptyGrid],
   boardCopy |-> "boardCopy", pos |-> 0, num |-> 0,
   hint |-> NoHint, placed |-> {}, done |-> FALSE]

\* The first digit that passes isValidMove is returned without solving ahead.
tentative_NoSolve(h, row, col, num) ==
  [h EXCEPT !.mem = [h.mem EXCEPT ![h.boardCopy][row][col] = num],
            !.placed = @ \cup {<<row, col, num>>},
            !.hint = [row |-> row, col |-> col, value |-> num],
            !.done = TRUE]

\* Lines 455-466: the digit is placed on boardCopy, tempBoard is a copy of
\* boardCopy and solveGrid runs on tempBoard; when it succeeds the hint is
\* returned, otherwise the digit loop goes on.
tentative(h, row, col, num) ==
  LET m1 == [h.mem EXCEPT ![h.boardCopy][row][col] = num]
      cp == mapCopy(m1, h.boardCopy, "tempBoard")
      sol == solveGrid(cp.mem[cp.ref])
      m2 == [cp.mem EXCEPT ![cp.ref] = sol.grid]
  IN  IF sol.ok
      THEN [h EXCEPT !.mem = m2, !.placed = @ \cup {<<row, col, num>>},
                     !.hint = [row |-> row, col |-> col, value |-> num],
                     !.done = TRUE]
      ELSE [h EXCEPT !.mem = m2, !.placed = @ \cup {<<row, col, num>>},
                     !.num = num + 1]

\* One iteration of the loops of getHint: pos is row * 9 + col, num the
\* digit the inner loop is at, 0 before the cell has been tested.
hintStep(h) ==
  LET row == h.pos \div 9
      col == h.pos % 9
  IN  IF h.pos > 80 THEN [h EXCEPT !.done = TRUE]                       \* line 473
      ELSE IF h.num = 0
           THEN IF h.mem["board"][row][col] = Null                      \* line 450
                THEN LET cp == mapCopy(h.mem, "board", "boardCopy")     \* line 451
                     IN  [h EXCEPT !.mem = cp.mem, !.boardCopy = cp.ref, !.num = 1]
                ELSE [h EXCEPT !.pos = @ + 1]
      ELSE IF h.num > 9 THEN [h EXCEPT !.pos = @ + 1, !.num = 0]
      ELSE IF isValidMove(h.mem[h.boardCopy], row, col, h.num)          \* line 454
           THEN tentative(h, row, col, h.num)
           ELSE [h EXCEPT !.num = @ + 1]

\* Up to 4^k iterations from h, where getHint has not returned, stopping
\* when it has: four runs of up to 4^(k-1) iterations each, hintThen3,
\* hintThen2 and hintThen1 going on from the state a that the first, the
\* second and the third of them has reached.
RECURSIVE hintRun(_, _)
hintThen1(a, k) == IF a.done THEN a ELSE hintRun(a, k)

hintThen2(a, k) == IF a.done THEN a ELSE hintThen1(hintRun(a, k), k)

hintThen3(a, k) == IF a.done THEN a ELSE hintThen2(hintRun(a, k), k)

hintRun(h, k) ==
  IF k = 0 THEN hintStep(h) ELSE hintThen3(hintRun(h, k - 1), k - 1)

\* The search of getHint below the limit test of line 443.
hintFrom(h) == IF h.done THEN h ELSE hintRun(h, HintFuel)

hintSearch(b, p) == hintFrom(hintStart(b, p))

(***************************************************************************)
(* Generation.  Math.random() is a stream of draws: the t-th draw of a     *)
(* stream is the fraction random(stream, t) / RandDen in [0, 1), and a     *)
(* stream is a start and a stride.  The draws are consumed in the order    *)
(* the code makes them: 27 by the three fillBox calls, one for the number  *)
(* of visible cells, 80 by the shuffle.                                    *)
(***************************************************************************)
RandDen == 10

MaxStride == 2

\* The shuffle runs at most 4^ShuffleFuel iterations (80 are made).
ShuffleFuel == 4

Streams == (0..(RandDen - 1)) \X (0..MaxStride)

random(stream, t) == (stream[1] + stream[2] * t) % RandDen

\* Math.floor(Math.random() * n), on draw t.
floorRandom(stream, t, n) == (random(stream, t) * n) \div RandDen

Difficulties == {"beginner", "intermediate", "hard", "expert"}

DIFFICULTY_CONFIGS ==
  [beginner     |-> [minVisible |-> 36, maxVisible |-> 40],
   intermediate |-> [minVisible |-> 32, maxVisible |-> 36],
   hard         |-> [minVisible |-> 28, maxVisible |-> 32],
   expert       |-> [minVisible |-> 24, maxVisible |-> 28]]

\* numbers.splice(randomIndex, 1), randomIndex counted from 0.
splice(numbers, randomIndex) ==
  SubSeq(numbers, 1, randomIndex) \o SubSeq(numbers, randomIndex + 2, Len(numbers))

\* The two loops of fillBox from cell k of the box on, k = 3 * i + j: the
\* numbers they write into the cells k, k + 1, ... of the box, in order.
RECURSIVE fillCells(_, _, _, _)
fillCells(numbers, k, stream, t) ==
  IF k = 9 THEN <<>>
  ELSE LET randomIndex == floorRandom(stream, t, Len(numbers))
       IN  <<numbers[randomIndex + 1]>>
             \o fillCells(splice(numbers, randomIndex), k + 1, stream, t + 1)

\* The grid g with written[3 * i + j + 1] in the cell (startRow * 3 + i,
\* startCol * 3 + j) of the box, for every i and j (line 265).
writeBox(g, startRow, startCol, written) ==
  [g EXCEPT ![startRow * 3][startCol * 3] = written[1],
            ![startRow * 3][startCol * 3 + 1] = written[2],
            ![startRow * 3][startCol * 3 + 2] = written[3],
            ![startRow * 3 + 1][startCol * 3] = written[4],
            ![startRow * 3 + 1][startCol * 3 + 1] = written[5],
            ![startRow * 3 + 1][startCol * 3 + 2] = written[6],
            ![startRow * 3 + 2][startCol * 3] = written[7],
            ![startRow * 3 + 2][startCol * 3 + 1] = written[8],
            ![startRow * 3 + 2][startCol * 3 + 2] = written[9]]

fillBox(g, startRow, startCol, stream, t) ==
  writeBox(g, startRow, startCol,
           fillCells(<<1, 2, 3, 4, 5, 6, 7, 8, 9>>, 0, stream, t))

seedBox_Step3(n) == LET i == 3 * n IN <<i \div 3, i % 3>>

\* The box of iteration n of the loop of line 251: i = 0, 4, 8.
seedBox(n) == LET i == 4 * n IN <<i \div 3, i % 3>>

\* The grid of generateSolvedGrid after its three fillBox calls.
seedGrid(stream) ==
  LET g1 == fillBox(EmptyGrid, seedBox(0)[1], seedBox(0)[2], stream, 0)
      g2 == fillBox(g1, seedBox(1)[1], seedBox(1)[2], stream, 9)
  IN  fillBox(g2, seedBox(2)[1], seedBox(2)[2], stream, 18)

\* generateSolvedGrid returns grid; solved is the result of solveGrid that
\* line 255 discards.
generated(s) == [grid |-> s.grid, solved |-> s.ok, done |-> s.done]

generateSolvedGrid(stream) == generated(solveGrid(seedGrid(stream)))

visibleCount_Ceil(config, stream, t) ==
  -((-(random(stream, t) * (config.maxVisible - config.minVisible + 1)
        + config.minVisible * RandDen)) \div RandDen)

\* Math.floor(Math.random() * (maxVisible - minVisible + 1) + minVisible).
visibleCount(config, stream, t) ==
  (random(stream, t) * (config.maxVisible - config.minVisible + 1)
     + config.minVisible * RandDen) \div RandDen

\* positions as the loops of lines 228-232 push them; positions[i] of the
\* code is positions0[i + 1].
positions0 == [k \in 1..81 |-> <<(k - 1) \div 9, (k - 1) % 9>>]

swap(positions, i, j) ==
  [positions EXCEPT ![i + 1] = positions[j + 1], ![j + 1] = positions[i + 1]]

\* One iteration of the shuffle of lines 234-237.
shuffleStep(s) ==
  LET j == floorRandom(s.stream, s.t, s.i + 1)
  IN  [s EXCEPT !.positions = swap(@, s.i, j), !.i = @ - 1, !.t = @ + 1]

\* Up to 4^k iterations from s, where i > 0, stopping when i is 0: four
\* runs of up to 4^(k-1) iterations each, shuffleThen3, shuffleThen2 and
\* shuffleThen1 going on from the state a that the first, the second and
\* the third of them has reached.
RECURSIVE shuffleRun(_, _)
shuffleThen1(a, k) == IF a.i <= 0 THEN a ELSE shuffleRun(a, k)

shuffleThen2(a, k) == IF a.i <= 0 THEN a ELSE shuffleThen1(shuffleRun(a, k), k)

shuffleThen3(a, k) == IF a.i <= 0 THEN a ELSE shuffleThen2(shuffleRun(a, k), k)

shuffleRun(s, k) ==
  IF k = 0 THEN shuffleStep(s) ELSE shuffleThen3(shuffleRun(s, k - 1), k - 1)

shuffleFrom(s) == IF s.i <= 0 THEN s ELSE shuffleRun(s, ShuffleFuel)

shuffle(stream, t) ==
  shuffleFrom([positions |-> positions0, i |-> 80, t |-> t, stream |-> stream])

\* The grid g with the cells of B set to null (lines 240-243).
blanked(g, B) == [r \in Idx |-> [c \in Idx |-> IF <<r, c>> \in B THEN Null ELSE g[r][c]]]

\* Lines 220-244 of generateSudokuPuzzle, on the solved grid of line 218:
\* puzzle is what the function returns.
removeCells(solvedGrid, config, stream) ==
  LET cellsToRemove == 81 - visibleCount(config, stream, 27)
      sh == shuffle(stream, 28)
      removed == {sh.positions[i + 1] : i \in 0..(cellsToRemove - 1)}
  IN  [puzzle |-> blanked(solvedGrid, removed),
       solvedGrid |-> solvedGrid,
       cellsToRemove |-> cellsToRemove,
       shuffled |-> sh.i = 0]

generateSudokuPuzzle(d, stream) ==
  removeCells(generateSolvedGrid(stream).grid, DIFFICULTY_CONFIGS[d], stream)

(***************************************************************************)
(* State.  puzzle, board, difficulty, score and hintsUsed are the fields   *)
(* of gameState the engine reads and writes.  grid is the grid object a    *)
(* direct call of an engine function is handed, given its content before   *)
(* the call, call the last call made (its name and arguments) and ret the  *)
(* value that call returned.                                               *)
(***************************************************************************)
VARIABLES puzzle, board, difficulty, score, hintsUsed,
          startTime, endTime, isCompleteFlag, isCorrectFlag, isPaused, pauseStartTime,
          shared, now, inflight, steps,
          leaderboardRecords, records, isTabVisible,
          grid, given, call, ret

vars == <<puzzle, board, difficulty, score, hintsUsed,
          startTime, endTime, isCompleteFlag, isCorrectFlag, isPaused, pauseStartTime,
          shared, now, inflight, steps,
          leaderboardRecords, records, isTabVisible,
          grid, given, call, ret>>

\* startTime, endTime, isPaused and pauseStartTime of gameState.
timerVars == <<startTime, endTime, isPaused, pauseStartTime>>

\* The stored fields isComplete and isCorrect of gameState.
flagVars == <<isCompleteFlag, isCorrectFlag>>

\* What surrounds gameState: shared tells whether board and puzzle are one
\* array object, now is the reading of Date.now(), inflight the leaderboard
\* queries of completeGame that are awaited, steps the number of calls made.
envVars == <<shared, now, inflight>>

\* The leaderboard: leaderboardRecords is the array the server keeps
\* (line 631), records the array the client shows (line 181).
boardVars == <<leaderboardRecords, records>>

\* isTabVisible (line 110) is a variable of its own: whether the tab showed
\* at the last visibilitychange event.

gameVars == <<puzzle, board, difficulty, score, hintsUsed, timerVars, flagVars, envVars, boardVars,
              isTabVisible, steps>>

\* The fields of gameState beside the five above as useSudokuGame
\* constructs them (lines 72-80), with nothing stored to load.
IdleInit ==
  /\ startTime = Null
  /\ endTime = Null
  /\ isCompleteFlag = FALSE
  /\ isCorrectFlag = FALSE
  /\ isPaused = FALSE
  /\ pauseStartTime = Null
  /\ isTabVisible = TRUE
  /\ shared = FALSE
  /\ now = 1000
  /\ inflight = << >>
  /\ leaderboardRecords = << >>
  /\ records = << >>
  /\ steps = 0

\* gameState as useSudokuGame constructs it (lines 67-81).
GameInit ==
  /\ puzzle = EmptyGrid
  /\ board = EmptyGrid
  /\ difficulty = "beginner"
  /\ score = 0
  /\ hintsUsed = 0
  /\ IdleInit

NoCall == [op |-> "none"]

\* The increment is counted before the penalty is computed.
penalty_AfterIncrement(used) == baseHintPenalty + ((used + 1) * hintPenaltyIncrement)

\* The penalty of lines 459-460, used being gameState.hintsUsed.
penalty(used) == baseHintPenalty + (used * hintPenaltyIncrement)

\* What getHint leaves once its loops have ended in h (lines 459-465, 473).
searched(h) ==
  /\ board' = h.mem["board"]
  /\ puzzle' = h.mem["puzzle"]
  /\ score' = IF h.hint # NoHint THEN score - penalty(hintsUsed) ELSE score
  /\ hintsUsed' = IF h.hint # NoHint THEN hintsUsed + 1 ELSE hintsUsed
  /\ ret' = h.hint
  /\ call' = [op |-> "getHint", before |-> hintsUsed, placed |-> h.placed,
               done |-> h.done]
  /\ UNCHANGED <<boardVars, isTabVisible, difficulty, timerVars, flagVars, envVars, grid, given>>

\* The limit lets one more hint through.
limitReached_Above(used) == used > maxHints

\* The test of line 443.
limitReached(used) == used >= maxHints

\* getHint, on the board and the counters of gameState.
GetHint ==
  IF limitReached(hintsUsed)
  THEN /\ ret' = NoHint                                                 \* line 444
       /\ call' = [op |-> "getHint", before |-> hintsUsed, placed |-> {}, done |-> TRUE]
       /\ UNCHANGED <<puzzle, board, difficulty, score, hintsUsed>>
       /\ UNCHANGED <<boardVars, isTabVisible, timerVars, flagVars, envVars, grid, given>>
  ELSE searched(hintSearch(board, puzzle))

(***************************************************************************)
(* The session handlers of useSudokuGame.  An input string is a sequence   *)
(* of characters.                                                          *)
(***************************************************************************)
correctCell == 5

errorPenalty == 1

timeBonus == 500

\* What a handler without a return value returns.
Undefined == [undefined |-> TRUE]

DigitChars == <<"0", "1", "2", "3", "4", "5", "6", "7", "8", "9">>

isDigit(ch) == \E d \in 1..10 : DigitChars[d] = ch

digitOf(ch) == (CHOOSE d \in 1..10 : DigitChars[d] = ch) - 1

RECURSIVE toNumber(_, _)
toNumber(chars, acc) ==
  IF chars = << >> THEN acc
  ELSE toNumber(Tail(chars), acc * 10 + digitOf(Head(chars)))

\* Every string parses as a digit: what the call would return were the input
\* always one of the keys the grid lets through.
parseInt_DigitsOnly(value) ==
  IF Len(value) >= 1 /\ isDigit(value[1]) THEN digitOf(value[1]) ELSE Null

\* parseInt(value): leading blanks are skipped, a sign is taken, then the
\* longest run of digits; NaN when that run is empty.
parseInt(value) ==
  LET n == Len(value)
      blanks == {i \in 1..n : \A k \in 1..i : value[k] = " "}
      start == Cardinality(blanks) + 1
      signed == start <= n /\ value[start] \in {"+", "-"}
      from == IF signed THEN start + 1 ELSE start
      run == {j \in from..n : \A k \in from..j : isDigit(value[k])}
      magnitude == toNumber(SubSeq(value, from, from + Cardinality(run) - 1), 0)
  IN  IF run = {} THEN NaN
      ELSE IF signed /\ value[start] = "-" THEN 0 - magnitude ELSE magnitude

\* a < b on numbers: false whenever an operand is NaN.
jsLess(a, b) == a # NaN /\ b # NaN /\ a < b

\* The computed isComplete (lines 86-93), on board b.
isComplete(b) == \A row \in Idx : \A col \in Idx : b[row][col] # Null

isCorrect_ScanOnly(b) == Len(getInvalidCells(b)) = 0

\* The computed isCorrect (lines 95-100), on board b.
isCorrect(b) == isComplete(b) /\ Len(getInvalidCells(b)) = 0

\* The seconds are rounded to the nearest instead of down.
elapsedTime_Round(st, et, clock) ==
  IF st = Null THEN 0
  ELSE (((IF et # Null THEN et ELSE clock) - st) + 500) \div 1000

\* The computed elapsedTime (lines 102-106) read at clock time clock.
elapsedTime(st, et, clock) ==
  IF st = Null THEN 0
  ELSE ((IF et # Null THEN et ELSE clock) - st) \div 1000

\* The test is inverted: the cells the puzzle leaves empty are the protected ones.
isOriginalCell_Empty(row, col) == puzzle[row][col] = Null

isOriginalCell(row, col) == puzzle[row][col] # Null

\* Completeness is tested before the scan.
validateBoard_CompleteFirst(b) ==
  LET invalid == getInvalidCells(b)
  IN  IF ~isComplete(b)
      THEN [valid |-> FALSE, message |-> "Puzzle is not complete", invalidCells |-> << >>]
      ELSE IF Len(invalid) > 0
      THEN [valid |-> FALSE, message |-> "There are errors in the puzzle",
            invalidCells |-> invalid]
      ELSE [valid |-> TRUE, message |-> "Puzzle solved correctly!", invalidCells |-> << >>]

validateBoard(b) ==
  LET invalid == getInvalidCells(b)
  IN  IF Len(invalid) > 0
      THEN [valid |-> FALSE, message |-> "There are errors in the puzzle",
            invalidCells |-> invalid]
      ELSE IF ~isComplete(b)
      THEN [valid |-> FALSE, message |-> "Puzzle is not complete", invalidCells |-> << >>]
      ELSE [valid |-> TRUE, message |-> "Puzzle solved correctly!", invalidCells |-> << >>]

\* completeGame up to its first await, entered with score sc: the query for
\* the top records of the difficulty is sent and awaited.  completed keeps
\* what the game's fields were at that moment; the code holds no such copy,
\* it is kept to compare with what is submitted later.
completeGame(sc) ==
  /\ endTime' = now
  /\ isCompleteFlag' = TRUE
  /\ isCorrectFlag' = TRUE
  /\ score' = sc + (timeBonus - elapsedTime(startTime, now, now))
  /\ inflight' = Append(inflight,
       [pc |-> "getTopRecords", difficulty |-> difficulty,
        completed |-> [difficulty |-> difficulty,
                       score |-> sc + (timeBonus - elapsedTime(startTime, now, now)),
                       time |-> elapsedTime(startTime, now, now),
                       hintsUsed |-> hintsUsed]])

\* The end of updateCell and applyHint (lines 434-436, 479-481) with board b
\* written and score sc reached.
completeIfCorrect(b, sc) ==
  IF isComplete(b) /\ isCorrect(b)
  THEN completeGame(sc)
  ELSE /\ score' = sc
       /\ UNCHANGED <<endTime, flagVars, inflight>>

\* A write into the array object of board shows in puzzle when the two are
\* one object.
seenInPuzzle(b) == IF shared THEN b ELSE puzzle

\* gameState.puzzle and gameState.board once lines 395 and 396 have assigned
\* them the references p and b.
assigned(p, b) ==
  [puzzle |-> b.mem[p.ref], board |-> b.mem[b.ref], shared |-> p.ref = b.ref]

\* Line 396, after line 395 has made p.
copyToBoard(p) == assigned(p, mapCopy(p.mem, "generated", "board"))

\* Line 395, on the puzzle that line 393 got from generateSudokuPuzzle.
copyToPuzzle(fresh) ==
  copyToBoard(mapCopy([generated |-> fresh, puzzle |-> puzzle, board |-> board],
                      "generated", "puzzle"))

\* The assignments of startNewGame; g is what lines 395 and 396 leave.
startGame(d, stream, g) ==
  /\ puzzle' = g.puzzle
  /\ board' = g.board
  /\ shared' = g.shared
  /\ difficulty' = d
  /\ score' = 0
  /\ hintsUsed' = 0
  /\ startTime' = now
  /\ endTime' = Null
  /\ isCompleteFlag' = FALSE
  /\ isCorrectFlag' = FALSE
  /\ isPaused' = FALSE
  /\ pauseStartTime' = Null
  /\ call' = [op |-> "startNewGame", difficulty |-> d, stream |-> stream]
  /\ ret' = Undefined
  /\ UNCHANGED <<boardVars, isTabVisible, now, inflight, grid, given>>

StartNewGame(d, stream) ==
  startGame(d, stream, copyToPuzzle(generateSudokuPuzzle(d, stream).puzzle))

UpdateCell(row, col, value) ==
  LET isNull == value = << >>
      numValue == IF isNull THEN Null ELSE parseInt(value)
  IN  IF \/ isOriginalCell(row, col)                                    \* line 402
         \/ (~isNull /\ (jsLess(numValue, 1) \/ jsLess(9, numValue)))  \* line 406
      THEN /\ call' = [op |-> "updateCell", row |-> row, col |-> col, value |-> value,
                        written |-> FALSE]
           /\ ret' = Undefined
           /\ UNCHANGED <<puzzle, board, difficulty, score, hintsUsed>>
           /\ UNCHANGED <<boardVars, isTabVisible, timerVars, flagVars, envVars, grid, given>>
      ELSE LET oldValue == board[row][col]
               tempBoard == [board EXCEPT ![row][col] = Null]
               wasOldValid == oldValue # Null /\ isValidMove(tempBoard, row, col, oldValue)
               isNowValid == isNull \/ isValidMove(board, row, col, numValue)
               written == [board EXCEPT ![row][col] = numValue]
               afterOld == IF /\ oldValue # Null
                              /\ wasOldValid
                              /\ (isNull \/ ~strictEquals(numValue, oldValue))
                           THEN score - correctCell
                           ELSE score
               afterNew == IF isNull THEN afterOld
                           ELSE IF isNowValid THEN afterOld + correctCell
                           ELSE afterOld - errorPenalty
           IN  /\ board' = written
               /\ puzzle' = seenInPuzzle(written)
               /\ completeIfCorrect(written, afterNew)
               /\ call' = [op |-> "updateCell", row |-> row, col |-> col, value |-> value,
                            written |-> TRUE]
               /\ ret' = Undefined
               /\ UNCHANGED <<difficulty, hintsUsed, startTime, isPaused, pauseStartTime>>
               /\ UNCHANGED <<boardVars, isTabVisible, shared, now, grid, given>>

ApplyHint(hint) ==
  LET written == [board EXCEPT ![hint.row][hint.col] = hint.value]
  IN  /\ board' = written
      /\ puzzle' = seenInPuzzle(written)
      /\ completeIfCorrect(written, score)
      /\ call' = [op |-> "applyHint", hint |-> hint]
      /\ ret' = Undefined
      /\ UNCHANGED <<difficulty, hintsUsed, startTime, isPaused, pauseStartTime>>
      /\ UNCHANGED <<boardVars, isTabVisible, shared, now, grid, given>>

ValidateBoard ==
  /\ ret' = validateBoard(board)
  /\ call' = [op |-> "validateBoard"]
  /\ UNCHANGED <<puzzle, board, difficulty, score, hintsUsed>>
  /\ UNCHANGED <<boardVars, isTabVisible, timerVars, flagVars, envVars, grid, given>>

SolveBoard ==
  LET mem == [board |-> board, boardCopy |-> board]
      boardCopy == mapCopy(mem, "board", "boardCopy")                  \* line 517
      s == solveGrid(boardCopy.mem[boardCopy.ref])
  IN  /\ IF s.ok
         THEN /\ board' = s.grid
              /\ puzzle' = IF boardCopy.ref = "board" THEN seenInPuzzle(s.grid) ELSE puzzle
              /\ shared' = (boardCopy.ref = "board" /\ shared)
         ELSE UNCHANGED <<board, puzzle, shared>>
      /\ call' = [op |-> "solveBoard", solved |-> s.ok, done |-> s.done]
      /\ ret' = Undefined
      /\ UNCHANGED <<difficulty, score, hintsUsed, timerVars, flagVars>>
      /\ UNCHANGED <<boardVars, isTabVisible, now, inflight, grid, given>>

ResetBoard ==
  LET mem == [puzzle |-> puzzle, board |-> board]
      b == mapCopy(mem, "puzzle", "board")                             \* line 528
  IN  /\ board' = b.mem[b.ref]
      /\ shared' = (b.ref = "puzzle")
      /\ score' = 0
      /\ hintsUsed' = 0
      /\ startTime' = now
      /\ endTime' = Null
      /\ isCompleteFlag' = FALSE
      /\ isCorrectFlag' = FALSE
      /\ isPaused' = FALSE
      /\ pauseStartTime' = Null
      /\ call' = [op |-> "resetBoard"]
      /\ ret' = Undefined
      /\ UNCHANGED <<boardVars, isTabVisible, puzzle, difficulty, now, inflight, grid, given>>

\* pauseGame without the test of line 143.
PauseGame_Unguarded ==
  /\ isPaused' = TRUE
  /\ pauseStartTime' = now
  /\ call' = [op |-> "pauseGame"]
  /\ ret' = Undefined
  /\ UNCHANGED <<puzzle, board, difficulty, score, hintsUsed, startTime, endTime>>
  /\ UNCHANGED <<boardVars, isTabVisible, flagVars, envVars, grid, given>>

PauseGame ==
  /\ IF ~isPaused /\ startTime # Null /\ endTime = Null
     THEN /\ isPaused' = TRUE
          /\ pauseStartTime' = now
     ELSE UNCHANGED <<isPaused, pauseStartTime>>
  /\ call' = [op |-> "pauseGame"]
  /\ ret' = Undefined
  /\ UNCHANGED <<puzzle, board, difficulty, score, hintsUsed, startTime, endTime>>
  /\ UNCHANGED <<boardVars, isTabVisible, flagVars, envVars, grid, given>>

\* continueGame without the shift of startTime (lines 152-155).
ContinueGame_KeepStart ==
  /\ IF isPaused
     THEN /\ isPaused' = FALSE
          /\ pauseStartTime' = Null
     ELSE UNCHANGED <<isPaused, pauseStartTime>>
  /\ call' = [op |-> "continueGame"]
  /\ ret' = Undefined
  /\ UNCHANGED <<puzzle, board, difficulty, score, hintsUsed, startTime, endTime>>
  /\ UNCHANGED <<boardVars, isTabVisible, flagVars, envVars, grid, given>>

ContinueGame ==
  /\ IF isPaused
     THEN /\ startTime' = IF pauseStartTime # Null
                          THEN startTime + (now - pauseStartTime)
                          ELSE startTime
          /\ isPaused' = FALSE
          /\ pauseStartTime' = Null
     ELSE UNCHANGED <<startTime, isPaused, pauseStartTime>>
  /\ call' = [op |-> "continueGame"]
  /\ ret' = Undefined
  /\ UNCHANGED <<puzzle, board, difficulty, score, hintsUsed, endTime>>
  /\ UNCHANGED <<boardVars, isTabVisible, flagVars, envVars, grid, given>>

\* The visibilitychange listener (lines 112-122) with document.hidden as
\* given.
HandleVisibilityChange(hidden) ==
  /\ IF hidden /\ ~isPaused /\ startTime # Null /\ endTime = Null
     THEN /\ isPaused' = TRUE
          /\ pauseStartTime' = now
     ELSE UNCHANGED <<isPaused, pauseStartTime>>
  /\ isTabVisible' = ~hidden
  /\ call' = [op |-> "handleVisibilityChange", hidden |-> hidden]
  /\ ret' = Undefined
  /\ UNCHANGED <<puzzle, board, difficulty, score, hintsUsed, startTime, endTime>>
  /\ UNCHANGED <<boardVars, flagVars, envVars, grid, given>>

\* Date.now() moves on by ms milliseconds.
Tick(ms) ==
  /\ now' = now + ms
  /\ UNCHANGED <<puzzle, board, difficulty, score, hintsUsed>>
  /\ UNCHANGED <<boardVars, isTabVisible, timerVars, flagVars, shared, inflight, grid, given, call, ret>>

(***************************************************************************)
(* The leaderboard server (lines 617-744).  A value of a request body is   *)
(* absent (Undefined), a number or a string; a difficulty is a string,     *)
(* the empty one standing for an absent one as well, since line 663 and    *)
(* line 717 test it with "!".                                              *)
(***************************************************************************)
Num(n) == [num |-> n]
Str(s) == [str |-> s]

\* parseInt of a body value (lines 682-685); the numbers sent are integers.
bodyInt(v) == IF "num" \in DOMAIN v THEN v.num ELSE parseInt(v.str)

\* The tiers the server accepts (line 671).
validDifficulties == {"beginner", "intermediate", "hard", "expert"}

\* The test written with "!" on every field, which rejects 0 too.
missingFields_Falsy(body) ==
  \/ body.difficulty = ""
  \/ body.score \in {Undefined, Num(0)}
  \/ body.time \in {Undefined, Num(0)}
  \/ body.hintsUsed \in {Undefined, Num(0)}

\* The first test of POST (line 663).
missingFields(body) ==
  \/ body.difficulty = ""
  \/ body.score = Undefined
  \/ body.time = Undefined
  \/ body.hintsUsed = Undefined

\* The record POST builds (lines 679-686) when Date.now() reads clock.
newRecord(body, clock) ==
  [id |-> ToString(clock),
   difficulty |-> body.difficulty,
   score |-> bodyInt(body.score),
   time |-> bodyInt(body.time),
   date |-> clock,
   hintsUsed |-> bodyInt(body.hintsUsed)]

\* The members of the set S of positions in ascending order.
ascending(S) ==
  [k \in 1..Cardinality(S) |-> CHOOSE i \in S : Cardinality({j \in S : j < i}) = k - 1]

\* The positions of store that filter keeps for difficulty d (lines 637,
\* 691, 724), the array objects being told apart by their position.
ofDifficulty(store, d) == ascending({i \in 1..Len(store) : store[i].difficulty = d})

\* Every order of the positions in pos.
Orders(pos) ==
  {f \in [1..Len(pos) -> {pos[k] : k \in 1..Len(pos)}] :
     \A i, j \in 1..Len(pos) : i # j => f[i] # f[j]}

\* The place sort gives position i of pos under (a, b) => b.score - a.score
\* when all scores are numbers: after the higher scores and after the
\* earlier equal ones, the sort being stable.
placeOf(store, pos, i) ==
  1 + Cardinality({j \in 1..Len(pos) :
                     \/ store[pos[j]].score > store[pos[i]].score
                     \/ (store[pos[j]].score = store[pos[i]].score /\ j < i)})

\* The orders sort((a, b) => b.score - a.score) can leave the records at
\* pos in (lines 645, 692, 725).  With a NaN score the comparator answers
\* NaN, which sort reads as 0: if the numbers beside it all agree every
\* pair compares equal and the order is kept, otherwise the comparator is
\* not consistent and the order is whatever the engine's sort makes of it.
sortByScore(store, pos) ==
  LET scores == {store[pos[k]].score : k \in 1..Len(pos)}
  IN  IF NaN \notin scores
      THEN {[k \in 1..Len(pos) |-> pos[CHOOSE i \in 1..Len(pos) : placeOf(store, pos, i) = k]]}
      ELSE IF Cardinality(scores \ {NaN}) <= 1
      THEN {pos}
      ELSE Orders(pos)

\* How many records of a tier the server keeps (lines 694, 727).
topCount == 3

\* store without the records at the positions in drop (line 697).
without(store, drop) ==
  LET keep == ascending((1..Len(store)) \ drop)
  IN  [k \in 1..Len(keep) |-> store[keep[k]]]

\* Lines 694-698 with the tier's records sorted into order.
trimmed(store, order) ==
  IF Len(order) > topCount
  THEN without(store, {order[k] : k \in (topCount + 1)..Len(order)})
  ELSE store

\* The records at the first n positions of order.
firstOf(store, order, n) ==
  [k \in 1..(IF Len(order) < n THEN Len(order) ELSE n) |-> store[order[k]]]

\* Lines 688-709 once the record is pushed: each answer POST can give with
\* the store it leaves.
pushedOutcomes(pushed, added) ==
  {[status |-> 201, data |-> <<added>>, store |-> trimmed(pushed, order)] :
     order \in sortByScore(pushed, ofDifficulty(pushed, added.difficulty))}

\* POST /api/leaderboard (lines 658-711) on store when Date.now() reads clock.
postOutcomes(store, body, clock) ==
  IF missingFields(body) \/ body.difficulty \notin validDifficulties
  THEN {[status |-> 400, data |-> << >>, store |-> store]}
  ELSE pushedOutcomes(Append(store, newRecord(body, clock)), newRecord(body, clock))

\* GET /api/leaderboard/top (lines 713-740) on store.
topOutcomes(store, d) ==
  IF d = ""
  THEN {[status |-> 400, data |-> << >>]}
  ELSE {[status |-> 200, data |-> firstOf(store, order, topCount)] :
          order \in sortByScore(store, ofDifficulty(store, d))}

\* GET /api/leaderboard (lines 633-656) on store.
leaderboardOutcomes(store, d) ==
  {[status |-> 200, data |-> firstOf(store, order, Len(order))] :
     order \in sortByScore(store, IF d = "" THEN ascending(1..Len(store))
                                  ELSE ofDifficulty(store, d))}

PostLeaderboard(body) ==
  \E o \in postOutcomes(leaderboardRecords, body, now) :
     /\ call' = [op |-> "postLeaderboard", body |-> body]
     /\ ret' = [status |-> o.status, data |-> o.data]
     /\ leaderboardRecords' = o.store

GetTop(d) ==
  \E o \in topOutcomes(leaderboardRecords, d) :
     /\ call' = [op |-> "getTop", difficulty |-> d]
     /\ ret' = o
     /\ UNCHANGED leaderboardRecords

GetLeaderboard(d) ==
  \E o \in leaderboardOutcomes(leaderboardRecords, d) :
     /\ call' = [op |-> "getLeaderboard", difficulty |-> d]
     /\ ret' = o
     /\ UNCHANGED leaderboardRecords

(***************************************************************************)
(* The client's side of the leaderboard (lines 17-50, 183-213) and what    *)
(* completeGame does once its query is answered (lines 553-564).  A task   *)
(* of inflight is a chain of awaits with pc the call it waits for.  A      *)
(* request is answered by the server, or fails: the server is not reached  *)
(* or its answer is not received, and axios rejects.                       *)
(***************************************************************************)
Failed == [failed |-> TRUE, data |-> << >>]

\* axios resolves on a status of 200..299 and rejects on any other.
Answered(o) == [failed |-> o.status \notin 200..299, data |-> o.data]

\* The request did not reach the server.
Unreached(store) == [status |-> 0, data |-> << >>, store |-> store]

\* inflight with task i replaced by the tasks of next.
settled(i, next) == SubSeq(inflight, 1, i - 1) \o next \o SubSeq(inflight, i + 1, Len(inflight))

\* What getTopRecords returns (lines 203-213) on the reply to its request.
getTopRecords(reply) == IF reply.failed THEN << >> ELSE reply.data

\* What loadRecords leaves in records (lines 183-191) on the reply.
loadRecords_KeepOld(reply) == IF reply.failed THEN records ELSE reply.data

loadRecords(reply) == IF reply.failed THEN << >> ELSE reply.data

\* The test of line 554 on the list getTopRecords returned.
qualifies(topRecords) ==
  \/ Len(topRecords) < 3
  \/ jsLess(topRecords[Len(topRecords)].score, score)

\* The record of lines 555-560, read from gameState when line 554 has passed.
submission ==
  [difficulty |-> difficulty,
   score |-> Num(score),
   time |-> Num(elapsedTime(startTime, endTime, now)),
   hintsUsed |-> Num(hintsUsed)]

\* Lines 553-554 resume with the list returned: the record is posted and
\* awaited, or completeGame saves and ends.  seen keeps the server's store as
\* it stood when the query settled, to tell later whether another
\* submission reached the server before this one.
resumeCompleteGame(i, topRecords) ==
  /\ inflight' = settled(i, IF qualifies(topRecords)
                             THEN <<[pc |-> "addRecord", record |-> submission,
                                     completed |-> inflight[i].completed,
                                     seen |-> leaderboardRecords]>>
                             ELSE << >>)
  /\ ret' = topRecords

\* The request of the awaited getTopRecords(difficulty) of line 553 is
\* answered or fails, and completeGame resumes.
GetTopRecordsSettles(i, reply) ==
  /\ inflight[i].pc = "getTopRecords"
  /\ resumeCompleteGame(i, getTopRecords(reply))
  /\ call' = [op |-> "getTopRecords", difficulty |-> inflight[i].difficulty,
              failed |-> reply.failed]
  /\ UNCHANGED <<puzzle, board, difficulty, score, hintsUsed>>
  /\ UNCHANGED <<boardVars, isTabVisible, timerVars, flagVars, shared, now, steps, grid, given>>

\* The POST of addRecord (lines 193-201) is answered, and loadRecords is
\* awaited, or fails: addRecord throws again, completeGame catches (lines
\* 561-563), saves and ends.  o is what the server made of the request,
\* received says whether its answer came back.
AddRecordSettles(i, o, received) ==
  /\ inflight[i].pc = "addRecord"
  /\ leaderboardRecords' = o.store
  /\ inflight' = settled(i, IF received /\ o.status \in 200..299
                             THEN <<[pc |-> "loadRecords"]>>
                             ELSE << >>)
  /\ call' = [op |-> "addRecord", record |-> inflight[i].record,
              completed |-> inflight[i].completed,
              seen |-> inflight[i].seen, status |-> o.status,
              failed |-> ~(received /\ o.status \in 200..299)]
  /\ ret' = Undefined
  /\ UNCHANGED <<puzzle, board, difficulty, score, hintsUsed>>
  /\ UNCHANGED <<isTabVisible, records, timerVars, flagVars, shared, now, steps, grid, given>>

\* The GET of loadRecords (lines 183-191) is answered or fails.
LoadRecordsSettles(i, reply) ==
  /\ inflight[i].pc = "loadRecords"
  /\ records' = loadRecords(reply)
  /\ inflight' = settled(i, << >>)
  /\ call' = [op |-> "loadRecords", failed |-> reply.failed]
  /\ ret' = Undefined
  /\ UNCHANGED <<puzzle, board, difficulty, score, hintsUsed>>
  /\ UNCHANGED <<isTabVisible, leaderboardRecords, timerVars, flagVars, shared, now, steps, grid, given>>

(***************************************************************************)
(* The rules of the game, stated over cells and their peers.               *)
(***************************************************************************)
SameUnit(p, q) ==
  \/ p[1] = q[1]
  \/ p[2] = q[2]
  \/ (p[1] \div 3 = q[1] \div 3 /\ p[2] \div 3 = q[2] \div 3)

PeersOf == [p \in Cells |-> {q \in Cells : q # p /\ SameUnit(p, q)}]

\* Every two distinct cells that share a unit, each pair once.
PeerPairs == {pq \in Cells \X Cells :
                /\ pq[1][1] * 9 + pq[1][2] < pq[2][1] * 9 + pq[2][2]
                /\ SameUnit(pq[1], pq[2])}

At(g, p) == g[p[1]][p[2]]

EmptyCells(g) == {p \in Cells : At(g, p) = Null}

\* No digit occurs twice in a row, a column or a box.
NoConflict(g) ==
  \A pq \in PeerPairs : At(g, pq[1]) = Null \/ At(g, pq[1]) # At(g, pq[2])

IsFull(g) == EmptyCells(g) = {}

\* Some assignment of digits to the empty cells E of g leaves no duplicate in
\* any unit: there is a digit for one empty cell, not held by a peer, such
\* that the rest can be assigned.
RECURSIVE CanAssign(_, _)
CanAssign(g, E) ==
  IF E = {} THEN NoConflict(g)
  ELSE LET p == CHOOSE q \in E : TRUE
       IN  \E d \in Digits :
             /\ \A q \in PeersOf[p] : At(g, q) # d
             /\ CanAssign([g EXCEPT ![p[1]][p[2]] = d], E \ {p})

HasCompletion(g) == CanAssign(g, EmptyCells(g))

\* The empty cells E of g can be filled so that no filled-in digit is held
\* by a peer: what a search that never revisits the given cells can reach.
RECURSIVE CanFill(_, _)
CanFill(g, E) ==
  IF E = {} THEN TRUE
  ELSE LET p == CHOOSE q \in E : TRUE
       IN  \E d \in Digits :
             /\ \A q \in PeersOf[p] : At(g, q) # d
             /\ CanFill([g EXCEPT ![p[1]][p[2]] = d], E \ {p})

Completable(g) == CanFill(g, EmptyCells(g))

\* The first cell of a non-empty set of cells in row-major order.
FirstCell(S) == CHOOSE p \in S : \A q \in S : p[1] * 9 + p[2] <= q[1] * 9 + q[2]

\* The digits that no peer of the empty cell p holds and with which the
\* grid stays completable.
GoodDigits(g, p) ==
  {d \in Digits : /\ \A q \in PeersOf[p] : At(g, q) # d
                  /\ Completable([g EXCEPT ![p[1]][p[2]] = d])}

Least(S) == CHOOSE d \in S : \A e \in S : d <= e

(***************************************************************************)
(* Input grids: the canonical solved grid with up to nBlank cells of       *)
(* PoolCells blanked and then at most one cell of PoolCells overwritten by *)
(* any digit.  The pool holds the cells of an unavoidable rectangle        *)
(* (6 7 / 7 6 in rows 0 and 3, columns 3 and 4) and cells around (0,0)     *)
(* whose blanking opens dead ends for the search.                          *)
(***************************************************************************)
PoolCells == {<<0, 0>>, <<0, 1>>, <<3, 1>>, <<8, 0>>, <<0, 3>>, <<0, 4>>, <<3, 3>>, <<3, 4>>}

CellSets(n) == {B \in SUBSET PoolCells : Cardinality(B) <= n}

InputGrids(nBlank) ==
  LET blanks == {blanked(createValidSolvedGrid, B) : B \in CellSets(nBlank)}
  IN  blanks \cup {[g EXCEPT ![p[1]][p[2]] = d] : g \in blanks, p \in PoolCells, d \in Digits}

(***************************************************************************)
(* The solver called directly on an input grid.                            *)
(***************************************************************************)
SolverMaxBlank == 4

SolverInit ==
  /\ GameInit
  /\ grid \in InputGrids(SolverMaxBlank)
  /\ given = grid
  /\ call = NoCall
  /\ ret = FALSE

CallSolveGrid ==
  /\ call.op = "none"
  /\ LET s == solveGrid(grid)
     IN  /\ grid' = s.grid
         /\ ret' = s.ok
         /\ call' = [op |-> "solveGrid", depth |-> s.depth, done |-> s.done]
  /\ UNCHANGED <<gameVars, given>>

SolverNext == CallSolveGrid

SpecSolver == SolverInit /\ [][SolverNext]_vars

\* C1: on a grid whose given cells hold no duplicate in any unit, solveGrid
\* returns true iff some assignment of digits to the empty cells is free of
\* duplicates; when it returns true the grid is full, free of duplicates and
\* every given cell holds its given value.
C1_SolveGridDecides ==
  (call.op = "solveGrid" /\ NoConflict(given)) =>
     /\ call.done
     /\ ret = HasCompletion(given)
     /\ ret => /\ IsFull(grid)
               /\ NoConflict(grid)
               /\ \A p \in Cells : At(given, p) # Null => At(grid, p) = At(given, p)

\* A conflict-free grid with four empty cells and two completions was solved.
C1_Witness ==
  /\ call.op = "solveGrid"
  /\ NoConflict(given)
  /\ EmptyCells(given) = {<<0, 3>>, <<0, 4>>, <<3, 3>>, <<3, 4>>}
  /\ ret
  /\ grid = createValidSolvedGrid

\* C2: whenever solveGrid returns false the grid is cell for cell the grid it
\* was given.
C2_FalseLeavesGridAsGiven ==
  (call.op = "solveGrid" /\ ~ret) => (call.done /\ grid = given)

\* solveGrid returned false after placing and retracting digits at two
\* nested levels at least.
C2_Witness ==
  /\ call.op = "solveGrid"
  /\ ~ret
  /\ call.depth >= 2

\* C16: solveGrid on a grid with no empty cell returns true and changes no
\* cell, whether or not the grid is free of duplicates.
C16_FullGridIsNoOp ==
  (call.op = "solveGrid" /\ IsFull(given)) =>
     (call.done /\ ret = TRUE /\ grid = given /\ call.depth = 0)

\* solveGrid returned true on a full grid that holds a duplicate.
C16_Witness ==
  /\ call.op = "solveGrid"
  /\ IsFull(given)
  /\ ~NoConflict(given)
  /\ ret = TRUE
  /\ grid = given

\* The full grids that agree with g outside the cells E and hold no digit
\* twice in a row, column or box.
RECURSIVE CompletionsOver(_, _)
CompletionsOver(g, E) ==
  IF E = {} THEN (IF NoConflict(g) THEN {g} ELSE {})
  ELSE LET p == CHOOSE q \in E : TRUE
       IN  UNION {CompletionsOver([g EXCEPT ![p[1]][p[2]] = d], E \ {p}) :
                    d \in {e \in Digits : \A q \in PeersOf[p] : At(g, q) # e}}

Completions(g) == CompletionsOver(g, EmptyCells(g))

\* a comes before b when the values of the cells E are read in row-major
\* order.
LexBefore(a, b, E) ==
  \E p \in E :
     /\ At(a, p) < At(b, p)
     /\ \A q \in E : (q[1] * 9 + q[2] < p[1] * 9 + p[2]) => At(a, q) = At(b, q)

\* C26: on a grid free of duplicates that has more than one completion,
\* solveGrid returns true and leaves the completion whose values in the
\* empty cells, read in row-major order, are lexicographically least.
C26_FirstCompletionIsLeast ==
  (call.op = "solveGrid" /\ NoConflict(given) /\ Cardinality(Completions(given)) > 1) =>
     /\ call.done
     /\ ret = TRUE
     /\ grid \in Completions(given)
     /\ \A h \in Completions(given) \ {grid} : LexBefore(grid, h, EmptyCells(given))

\* A grid with four empty cells and two completions was solved, and the
\* completion left is not the one that puts the larger digit first.
C26_Witness ==
  /\ call.op = "solveGrid"
  /\ NoConflict(given)
  /\ Cardinality(EmptyCells(given)) = 4
  /\ Cardinality(Completions(given)) = 2
  /\ \E h \in Completions(given) : LexBefore(grid, h, EmptyCells(given))

\* C27: solveGrid returns on every grid, and the nesting of its recursive
\* calls never goes deeper than the number of cells that were empty.
C27_TerminatesWithinDepth ==
  call.op = "solveGrid" =>
     (call.done /\ call.depth <= Cardinality(EmptyCells(given)))

\* solveGrid returned false on a grid with four empty cells after nesting
\* three calls deep.
C27_Witness ==
  /\ call.op = "solveGrid"
  /\ call.done
  /\ ~ret
  /\ Cardinality(EmptyCells(given)) = 4
  /\ call.depth = 3

(***************************************************************************)
(* solveGrid on a full grid with one cell blanked.  The full grids are the *)
(* canonical grid and the grids it gives when every digit is shifted by    *)
(* the same amount, which keeps rows, columns and boxes free of            *)
(* duplicates.                                                             *)
(***************************************************************************)
ResolveMaxShift == 2

shifted(g, k) == [r \in Idx |-> [c \in Idx |-> ((g[r][c] - 1 + k) % 9) + 1]]

ResolveGrids == {shifted(createValidSolvedGrid, k) : k \in 0..ResolveMaxShift}

ResolveInit ==
  /\ GameInit
  /\ \E g \in ResolveGrids : \E p \in Cells : grid = blanked(g, {p})
  /\ given = grid
  /\ call = NoCall
  /\ ret = FALSE

SpecResolve == ResolveInit /\ [][SolverNext]_vars

\* C17: for a full grid free of duplicates and any one of its cells,
\* solveGrid on the grid with that cell blanked returns true and leaves the
\* grid equal to the full grid in every cell.
C17_OneBlankResolves ==
  call.op = "solveGrid" =>
     \A g \in ResolveGrids : \A p \in Cells :
        given = blanked(g, {p}) =>
           (IsFull(g) /\ NoConflict(g) /\ call.done /\ ret = TRUE /\ grid = g)

\* The blanked cell was the last one, held 9, and the solver put 9 back
\* after passing over the eight smaller digits.
C17_Witness ==
  /\ call.op = "solveGrid"
  /\ EmptyCells(given) = {<<8, 8>>}
  /\ ret = TRUE
  /\ IsFull(grid)
  /\ At(grid, <<8, 8>>) = 9
  /\ grid = createValidSolvedGrid

(***************************************************************************)
(* The constraint checker called directly: on the canonical grid with up   *)
(* to CheckerMaxBlank cells blanked among a cell p of CheckCells and its   *)
(* peers, and p itself possibly overwritten, isValidMove is asked about    *)
(* every digit at p.                                                       *)
(***************************************************************************)
CheckerMaxBlank == 2

CheckCells == {<<0, 0>>, <<4, 4>>}

CheckerGrids(p) ==
  LET blanks == {blanked(createValidSolvedGrid, B) :
                   B \in {X \in SUBSET (PeersOf[p] \cup {p}) : Cardinality(X) <= CheckerMaxBlank}}
  IN  blanks \cup {[g EXCEPT ![p[1]][p[2]] = d] : g \in blanks, d \in Digits}

CheckerInit ==
  /\ GameInit
  /\ \E p \in CheckCells :
        /\ grid \in CheckerGrids(p)
        /\ call = [op |-> "none", row |-> p[1], col |-> p[2]]
  /\ given = grid
  /\ ret = FALSE

CallIsValidMove(num) ==
  /\ call.op = "none"
  /\ ret' = isValidMove(grid, call.row, call.col, num)
  /\ call' = [op |-> "isValidMove", row |-> call.row, col |-> call.col, num |-> num]
  /\ UNCHANGED <<gameVars, grid, given>>

CheckerNext == \E num \in Digits : CallIsValidMove(num)

SpecChecker == CheckerInit /\ [][CheckerNext]_vars

\* The digit of the call is held by a cell other than (row, col) in its row,
\* its column or its box.
HeldByPeer == \E q \in PeersOf[<<call.row, call.col>>] : At(grid, q) = call.num

\* C3 as stated: isValidMove ignores the content of (row, col) itself and
\* returns true iff no other cell of the row, the column or the box holds
\* the digit.
C3_IgnoresOwnCell ==
  call.op = "isValidMove" => (ret = ~HeldByPeer)

\* C3 as amended: isValidMove does not ignore the content of (row, col): it
\* returns true iff no cell of the row, the column or the box holds the
\* digit, the cell (row, col) included, so a cell's own digit is reported
\* invalid at that cell.
C3_CountsOwnCell ==
  call.op = "isValidMove" =>
     /\ ret = (~HeldByPeer /\ grid[call.row][call.col] # call.num)
     /\ grid[call.row][call.col] = call.num => ~ret

\* isValidMove was asked about the digit the cell holds while no peer holds it.
C3_Witness ==
  /\ call.op = "isValidMove"
  /\ grid[call.row][call.col] = call.num
  /\ ~HeldByPeer
  /\ ~ret

\* C4: isValidMove returns false whenever another cell of the row, the
\* column or the box holds the digit, and for an empty cell it returns true
\* when none of the three units holds it.
C4_PeerRejects ==
  call.op = "isValidMove" =>
     /\ HeldByPeer => ~ret
     /\ (grid[call.row][call.col] = Null /\ ~HeldByPeer) => ret

\* At an empty cell isValidMove rejected a digit that exactly one peer holds.
C4_Witness ==
  /\ call.op = "isValidMove"
  /\ grid[call.row][call.col] = Null
  /\ Cardinality({q \in PeersOf[<<call.row, call.col>>] : At(grid, q) = call.num}) = 1
  /\ ~ret

(***************************************************************************)
(* The invalid-cell scan on boards set directly, as the tests do: the      *)
(* canonical grid with up to ScanMaxEdit cells of ScanCells blanked or     *)
(* overwritten by any digit.                                               *)
(***************************************************************************)
ScanMaxEdit == 2

ScanCells == {<<0, 0>>, <<0, 1>>, <<1, 1>>, <<4, 4>>}

ScanBoards ==
  UNION { { [r \in Idx |-> [c \in Idx |->
               IF <<r, c>> \in W THEN f[<<r, c>>] ELSE createValidSolvedGrid[r][c]]]
            : f \in [W -> 0..9] }
          : W \in {X \in SUBSET ScanCells : Cardinality(X) <= ScanMaxEdit} }

ScanInit ==
  /\ puzzle = EmptyGrid
  /\ board \in ScanBoards
  /\ difficulty = "beginner"
  /\ score = 0
  /\ hintsUsed = 0
  /\ grid = EmptyGrid
  /\ given = EmptyGrid
  /\ call = NoCall
  /\ IdleInit
  /\ ret = FALSE

CallGetInvalidCells ==
  /\ call.op = "none"
  /\ ret' = getInvalidCells(board)
  /\ call' = [op |-> "getInvalidCells"]
  /\ UNCHANGED <<gameVars, grid, given>>

ScanNext == CallGetInvalidCells

SpecScan == ScanInit /\ [][ScanNext]_vars

\* The cells whose digit is also held by another cell of the same row,
\* column or box.
InConflict(b) ==
  {p \in Cells : At(b, p) # Null /\ \E q \in PeersOf[p] : At(b, q) = At(b, p)}

\* C5: getInvalidCells returns exactly the cells whose digit is also held by
\* another cell of the same row, column or box, each listed once; on a full
\* conflict-free grid it returns the empty list.
C5_ScanFlagsEveryOccurrence ==
  call.op = "getInvalidCells" =>
     /\ {ret[i] : i \in 1..Len(ret)} = {cellKey(p) : p \in InConflict(board)}
     /\ \A i, j \in 1..Len(ret) : ret[i] = ret[j] => i = j
     /\ (IsFull(board) /\ NoConflict(board)) => ret = <<>>

\* The digit 1 stands three times in row 0 and in box 0 and all three
\* occurrences in the row are reported.
C5_Witness ==
  /\ call.op = "getInvalidCells"
  /\ board[0][0] = 1 /\ board[0][1] = 1 /\ board[0][7] = 1 /\ board[2][0] = 1
  /\ {"0-0", "0-1", "0-7", "2-0"} \subseteq {ret[i] : i \in 1..Len(ret)}

\* The canonical grid with (0,0) forced to 1.
ForcedOne == [createValidSolvedGrid EXCEPT ![0][0] = 1]

RowPeerKeys(row, col) == {cellKey(<<row, c>>) : c \in Idx \ {col}}

\* C18 as stated: on the canonical grid with (0,0) forced to 1, isValidMove
\* at (0,0) for 1 is false and the scan lists (0,0), while row 0 holds no
\* other 1, so that no cell of row 0 other than (0,0) is listed.
C18_NoOtherOneInRowZero ==
  (call.op = "getInvalidCells" /\ board = ForcedOne) =>
     /\ ~isValidMove(board, 0, 0, 1)
     /\ \E i \in 1..Len(ret) : ret[i] = "0-0"
     /\ \A c \in 1..8 : board[0][c] # 1
     /\ \A i \in 1..Len(ret) : ret[i] \notin RowPeerKeys(0, 0)

\* C18, amended: on that grid isValidMove at (0,0) for 1 is false and the
\* scan lists (0,0); row 0 holds a second 1 at (0,7) and column 0 and box 0
\* hold one at (2,0), so the scan lists exactly (0,0), (0,7) and (2,0), the
\* row conflict first.
C18_RowColumnAndBoxConflict ==
  (call.op = "getInvalidCells" /\ board = ForcedOne) =>
     /\ ~isValidMove(board, 0, 0, 1)
     /\ board[0][7] = 1
     /\ board[2][0] = 1
     /\ ret = <<"0-0", "0-7", "2-0">>

\* The scan ran on the canonical grid with (0,0) forced to 1 and listed the
\* row peer (0,7).
C18_Witness ==
  /\ call.op = "getInvalidCells"
  /\ board = ForcedOne
  /\ \E i \in 1..Len(ret) : ret[i] = "0-7"

(***************************************************************************)
(* getHint on boards set as the hint test sets them: the canonical grid    *)
(* with pool cells blanked or overwritten; the pool cells are the cells    *)
(* the puzzle leaves to the player.  given records the board before the    *)
(* call.                                                                   *)
(***************************************************************************)
HintMaxBlank == 3

HintInit ==
  /\ puzzle = blanked(createValidSolvedGrid, PoolCells)
  /\ board \in InputGrids(HintMaxBlank)
  /\ difficulty = "beginner"
  /\ score = 0
  /\ hintsUsed \in {0, maxHints - 1, maxHints}
  /\ grid = EmptyGrid
  /\ given = board
  /\ call = NoCall
  /\ IdleInit
  /\ ret = FALSE

HintNext == call.op = "none" /\ GetHint /\ UNCHANGED steps

SpecHint == HintInit /\ [][HintNext]_vars

\* C6: below the hint limit, on a completable board with an empty cell,
\* getHint returns the first empty cell in row-major order with the smallest
\* digit that no peer holds and that keeps the board completable; on the
\* canonical grid with (0,0) blanked it returns row 0, col 0, value 5.
C6_HintFirstCellLeastDigit ==
  (call.op = "getHint" /\ call.before < maxHints) =>
     /\ call.done
     /\ (~IsFull(given) /\ Completable(given)) =>
           LET e == FirstCell(EmptyCells(given))
               good == GoodDigits(given, e)
           IN  /\ good # {}
               /\ ret = [row |-> e[1], col |-> e[2], value |-> Least(good)]
     /\ given = blanked(createValidSolvedGrid, {<<0, 0>>}) =>
           ret = [row |-> 0, col |-> 0, value |-> 5]

\* The hint is 5 at (0,0) although 3, a smaller digit, passes isValidMove
\* there: with 3 placed the board has no completion.
C6_Witness ==
  /\ call.op = "getHint"
  /\ call.before < maxHints
  /\ EmptyCells(given) = {<<0, 0>>, <<0, 1>>, <<8, 0>>}
  /\ isValidMove(given, 0, 0, 3)
  /\ <<0, 0, 3>> \in call.placed
  /\ ret = [row |-> 0, col |-> 0, value |-> 5]

\* C7: getHint returns none when the board has no empty cell, and returns
\* none when no digit at the first empty cell leads to a completable board,
\* whatever the later empty cells allow.
C7_NoneWhenFirstCellFails ==
  call.op = "getHint" =>
     /\ call.done
     /\ IsFull(given) => ret = NoHint
     /\ (~IsFull(given) /\ GoodDigits(given, FirstCell(EmptyCells(given))) = {})
           => ret = NoHint

\* Below the limit getHint returned none after it had gone on to a later
\* empty cell and placed a digit there.
C7_Witness ==
  /\ call.op = "getHint"
  /\ call.before < maxHints
  /\ ret = NoHint
  /\ \E t \in call.placed : <<t[1], t[2]>> # FirstCell(EmptyCells(given))

\* C8: getHint never modifies board or puzzle, whether it returns a hint or
\* none.
C8_HintLeavesBoardAndPuzzle ==
  [][call'.op = "getHint" => (board' = board /\ puzzle' = puzzle)]_vars

\* getHint returned none after a tentative digit had been placed and
\* found to lead nowhere, and the board is the board as it was.
C8_Witness ==
  /\ call.op = "getHint"
  /\ ret = NoHint
  /\ call.placed # {}
  /\ board = given

(***************************************************************************)
(* Generation, called directly.  The draws of Math.random() range over     *)
(* Streams and the difficulty over the four tiers.  grid is the solved     *)
(* grid the call built, given the grid as seeded before the solver ran.    *)
(***************************************************************************)
GenInit ==
  /\ GameInit
  /\ grid = EmptyGrid
  /\ given = EmptyGrid
  /\ call = NoCall
  /\ ret = FALSE

CallGenerateSolvedGrid(stream) ==
  /\ call.op = "none"
  /\ LET g == generateSolvedGrid(stream)
     IN  /\ grid' = g.grid
         /\ ret' = g.grid
         /\ call' = [op |-> "generateSolvedGrid", stream |-> stream,
                      solved |-> g.solved, done |-> g.done]
  /\ given' = seedGrid(stream)
  /\ UNCHANGED gameVars

CallGenerateSudokuPuzzle(d, stream) ==
  /\ call.op = "none"
  /\ LET p == generateSudokuPuzzle(d, stream)
     IN  /\ grid' = p.solvedGrid
         /\ ret' = p.puzzle
         /\ call' = [op |-> "generateSudokuPuzzle", stream |-> stream,
                      difficulty |-> d, cellsToRemove |-> p.cellsToRemove,
                      shuffled |-> p.shuffled]
  /\ given' = seedGrid(stream)
  /\ UNCHANGED gameVars

GenNext ==
  \/ \E stream \in Streams : CallGenerateSolvedGrid(stream)
  \/ \E d \in Difficulties : \E stream \in Streams : CallGenerateSudokuPuzzle(d, stream)

SpecGen == GenInit /\ [][GenNext]_vars

Visible(g) == Cells \ EmptyCells(g)

\* C9: for every tier and every draw the puzzle generateSudokuPuzzle returns
\* has V non-empty cells with minVisible <= V <= maxVisible of the tier, and
\* it is the solved grid with exactly 81 - V distinct cells blanked.
C9_VisibleWithinTier ==
  call.op = "generateSudokuPuzzle" =>
     LET V == Cardinality(Visible(ret))
         config == DIFFICULTY_CONFIGS[call.difficulty]
     IN  /\ call.shuffled
         /\ config.minVisible <= V
         /\ V <= config.maxVisible
         /\ Cardinality({p \in Cells : At(grid, p) # Null /\ At(ret, p) = Null}) = 81 - V
         /\ \A p \in Visible(ret) : At(ret, p) = At(grid, p)

\* An expert puzzle with the most cells its tier allows, 28, whose first
\* cell was not among the blanked ones.
C9_Witness ==
  /\ call.op = "generateSudokuPuzzle"
  /\ call.difficulty = "expert"
  /\ Cardinality(Visible(ret)) = 28
  /\ call.cellsToRemove = 53
  /\ At(ret, <<0, 0>>) # Null

BoxCells(br, bc) == {p \in Cells : p[1] \div 3 = br /\ p[2] \div 3 = bc}

DiagonalCells == BoxCells(0, 0) \cup BoxCells(1, 1) \cup BoxCells(2, 2)

BoxPermutation(g, br, bc) == [k \in 0..8 |-> g[br * 3 + (k \div 3)][bc * 3 + (k % 3)]]

\* C10: whatever permutations of 1..9 seed the diagonal boxes, solveGrid
\* succeeds on the seeded grid and generateSolvedGrid returns a grid with
\* no empty cell and no digit twice in a row, a column or a box.
C10_SolvedGridFullAndValid ==
  call.op = "generateSolvedGrid" =>
     /\ Visible(given) = DiagonalCells
     /\ \A b \in 0..2 : {At(given, p) : p \in BoxCells(b, b)} = Digits
     /\ call.done
     /\ call.solved
     /\ IsFull(ret)
     /\ NoConflict(ret)
     /\ \A p \in DiagonalCells : At(ret, p) = At(given, p)

\* The three diagonal boxes were seeded with three different permutations,
\* none of them 1..9 in order, and the solver filled the other 54 cells.
C10_Witness ==
  /\ call.op = "generateSolvedGrid"
  /\ Cardinality(EmptyCells(given)) = 54
  /\ BoxPermutation(given, 0, 0) # BoxPermutation(given, 1, 1)
  /\ BoxPermutation(given, 1, 1) # BoxPermutation(given, 2, 2)
  /\ BoxPermutation(given, 0, 0) # BoxPermutation(given, 2, 2)
  /\ \A b \in 0..2 : BoxPermutation(given, b, b) # [k \in 0..8 |-> k + 1]
  /\ IsFull(ret)

(***************************************************************************)
(* solveGrid on a copy of a generated puzzle: generateSudokuPuzzle is      *)
(* called first and solveGrid then runs on a copy of the puzzle returned.  *)
(* The draws range over the streams with a stride of 1 at least and a      *)
(* start of PuzzleMaxStart at most.                                        *)
(***************************************************************************)
PuzzleMaxStart == 6

PuzzleStreams == {st \in Streams : st[1] <= PuzzleMaxStart /\ st[2] >= 1}

\* solveGrid(puzzle.map(row => [...row])) on the puzzle just returned; given
\* is the puzzle, grid the copy after the call, cutFrom the solved grid.
CallSolveGridOnCopy ==
  /\ call.op = "generateSudokuPuzzle"
  /\ LET s == solveGrid(ret)
     IN  /\ grid' = s.grid
         /\ ret' = s.ok
         /\ call' = [op |-> "solveGrid", depth |-> s.depth, done |-> s.done,
                      difficulty |-> call.difficulty, cutFrom |-> grid]
  /\ given' = ret
  /\ UNCHANGED gameVars

PuzzleNext ==
  \/ \E d \in Difficulties : \E stream \in PuzzleStreams : CallGenerateSudokuPuzzle(d, stream)
  \/ CallSolveGridOnCopy

SpecPuzzle == GenInit /\ [][PuzzleNext]_vars

\* C11: solveGrid returns true on a copy of every puzzle generateSudokuPuzzle
\* returns: every non-empty cell of the puzzle equals the cell of the solved
\* grid it was cut from, which is therefore a completion of the puzzle, and
\* the copy ends full, free of duplicates and equal to the puzzle on the
\* puzzle's non-empty cells.
C11_PuzzleIsSolvable ==
  call.op = "solveGrid" =>
     /\ \A p \in Visible(given) : At(given, p) = At(call.cutFrom, p)
     /\ IsFull(call.cutFrom)
     /\ NoConflict(call.cutFrom)
     /\ call.done
     /\ ret = TRUE
     /\ IsFull(grid)
     /\ NoConflict(grid)
     /\ \A p \in Visible(given) : At(grid, p) = At(given, p)

\* An expert puzzle was solved to a completion other than the solved grid
\* it was cut from.
C11_Witness ==
  /\ call.op = "solveGrid"
  /\ call.difficulty = "expert"
  /\ Cardinality(Visible(given)) <= 28
  /\ ret = TRUE
  /\ IsFull(grid)
  /\ grid # call.cutFrom

(***************************************************************************)
(* A session.  It starts from gameState as constructed, or from a game in  *)
(* progress that loadGameState restores: a generated puzzle in which the   *)
(* player has filled every empty cell but the first one, or the first      *)
(* OpenCount, with the digit of the solved grid, with or without hints,    *)
(* score and hintsUsed being what those moves leave.  The player types     *)
(* into the first OpenCount cells the puzzle leaves empty and into its     *)
(* first given cell.  getHint and applyHint are called as handleHint of    *)
(* App.vue calls them: applyHint follows at once when getHint returns a    *)
(* hint, and the two count as one call.                                    *)
(***************************************************************************)
MaxSteps == 2

OpenCount == 2

TickSteps == {700, 501000}

SessionStreams == {<<1, 1>>}

InputStrings == {<< >>, <<"3">>, <<"5">>, <<"a">>, <<"1", "2">>, <<"3", "a">>}

rowMajor(p) == p[1] * 9 + p[2]

\* The first n cells of S in row-major order.
firstCells(S, n) == {p \in S : Cardinality({q \in S : rowMajor(q) < rowMajor(p)}) < n}

openCells(p) == firstCells({c \in Cells : p[c[1]][c[2]] = Null}, OpenCount)

playCells(p) == openCells(p) \cup firstCells({c \in Cells : p[c[1]][c[2]] # Null}, 1)

\* What h hints have cost: the sum of baseHintPenalty + i * hintPenaltyIncrement
\* for i below h.
hintsCost(h) == h * baseHintPenalty + hintPenaltyIncrement * ((h * (h - 1)) \div 2)

\* A game of difficulty d in progress with h hints taken and all but the
\* first open empty cells filled in correctly.
inProgress(d, g, h, open) ==
  /\ puzzle = g.puzzle
  /\ board = blanked(g.solvedGrid, firstCells(EmptyCells(g.puzzle), open))
  /\ difficulty = d
  /\ score = (Cardinality(EmptyCells(g.puzzle)) - open - h) * correctCell - hintsCost(h)
  /\ hintsUsed = h
  /\ startTime = 1000
  /\ endTime = Null
  /\ isCompleteFlag = FALSE
  /\ isCorrectFlag = FALSE
  /\ isPaused = FALSE
  /\ pauseStartTime = Null
  /\ isTabVisible = TRUE
  /\ shared = FALSE
  /\ now = 1000
  /\ steps = 0

SnapshotInit ==
  \E d \in Difficulties : \E stream \in SessionStreams :
  \E h \in {0, maxHints - 1} : \E open \in 1..OpenCount :
     /\ inProgress(d, generateSudokuPuzzle(d, stream), h, open)
     /\ inflight = << >>
     /\ leaderboardRecords = << >>
     /\ records = << >>

SessionInit ==
  /\ GameInit \/ SnapshotInit
  /\ grid = EmptyGrid
  /\ given = EmptyGrid
  /\ call = NoCall
  /\ ret = FALSE

\* One more call is made.
Step == steps < MaxSteps /\ steps' = steps + 1

\* No hint is waiting to be applied.
Ready == ~(call.op = "getHint" /\ ret # NoHint)

SessionNext ==
  \/ \E d \in Difficulties : \E stream \in SessionStreams :
        Ready /\ Step /\ StartNewGame(d, stream)
  \/ \E p \in playCells(puzzle) : \E value \in InputStrings :
        Ready /\ Step /\ UpdateCell(p[1], p[2], value)
  \/ Ready /\ Step /\ GetHint
  \/ ~Ready /\ ApplyHint(ret) /\ UNCHANGED steps
  \/ Ready /\ Step /\ ValidateBoard
  \/ Ready /\ Step /\ SolveBoard
  \/ Ready /\ Step /\ ResetBoard
  \/ Ready /\ Step /\ PauseGame
  \/ Ready /\ Step /\ ContinueGame
  \/ \E ms \in TickSteps : Ready /\ Step /\ Tick(ms)

SpecSession == SessionInit /\ [][SessionNext]_vars

\* C12: in every state of a session, every original cell -- a cell whose
\* puzzle value is not empty -- holds in board exactly its puzzle value.
C12_OriginalCellsKeepPuzzleValue ==
  \A p \in Cells : At(puzzle, p) # Null => At(board, p) = At(puzzle, p)

\* updateCell has been called on an original cell with a digit that is not
\* the cell's value.
C12_Witness ==
  /\ call.op = "updateCell"
  /\ puzzle[call.row][call.col] # Null
  /\ parseInt(call.value) \in Digits \ {puzzle[call.row][call.col]}

\* C14: puzzle changes only in a step of startNewGame -- updateCell, getHint,
\* applyHint, validateBoard, solveBoard, resetBoard, pauseGame and
\* continueGame leave every puzzle cell as it was -- and board and puzzle are
\* never one array object, so no write to a board cell shows in puzzle.
C14_PuzzleChangesOnlyInStartNewGame ==
  /\ [](~shared)
  /\ [][puzzle' # puzzle => call'.op = "startNewGame"]_vars

\* updateCell has written a cell of board, and puzzle still holds null there.
C14_Witness ==
  /\ call.op = "updateCell"
  /\ call.written
  /\ board[call.row][call.col] # Null
  /\ puzzle[call.row][call.col] = Null

\* C15: the computed isCorrect is true iff board has no empty cell and the
\* invalid-cell scan returns nothing; validateBoard reports valid in exactly
\* that case, reports the cells of the scan whenever there are any, on an
\* incomplete board too, and otherwise reports that the puzzle is not complete.
C15_CorrectIffCompleteAndClean ==
  LET full == EmptyCells(board) = {}
      invalid == getInvalidCells(board)
  IN  /\ isCorrect(board) <=> (full /\ invalid = << >>)
      /\ call.op = "validateBoard" =>
            /\ ret.valid <=> (full /\ invalid = << >>)
            /\ invalid # << >> =>
                  /\ ret.invalidCells = invalid
                  /\ ret.message = "There are errors in the puzzle"
            /\ (invalid = << >> /\ ~full) =>
                  /\ ret.invalidCells = << >>
                  /\ ret.message = "Puzzle is not complete"

\* validateBoard has been called on a board that has both an empty cell and
\* cells in conflict.
C15_Witness ==
  /\ call.op = "validateBoard"
  /\ EmptyCells(board) # {}
  /\ ret.invalidCells # << >>

\* C19: a getHint that returns a hint takes baseHintPenalty + hintsUsed *
\* hintPenaltyIncrement off the score, hintsUsed being the count before the
\* call, and adds one to hintsUsed; hintsUsed changes in no other way but
\* back to 0 when a game starts or is reset.  So hintsUsed counts the hints
\* of the game, and the N-th costs 3 + (N - 1): the first 3, the second 4.
C19_NthHintCosts ==
  [][/\ (call'.op = "getHint" /\ steps' # steps /\ ret' # NoHint) =>
          /\ score' = score - (3 + hintsUsed)
          /\ hintsUsed' = hintsUsed + 1
     /\ hintsUsed' # hintsUsed =>
          \/ call'.op = "getHint" /\ steps' # steps /\ ret' # NoHint
          \/ call'.op \in {"startNewGame", "resetBoard"} /\ hintsUsed' = 0]_vars

\* The second hint of a game that had used none has been given: the two have
\* cost 3 + 4.
C19_Witness ==
  /\ call.op = "getHint"
  /\ ret # NoHint
  /\ hintsUsed = 2
  /\ steps = 2
  /\ score = (Cardinality(EmptyCells(puzzle)) - OpenCount) * correctCell - (3 + 4)

\* C20: hintsUsed never exceeds maxHints = 10; a getHint called with
\* hintsUsed at 10 returns none; and a getHint that returns none, whatever
\* the cause, leaves score and hintsUsed as they were.
C20_HintsUsedCapped ==
  /\ [](hintsUsed <= 10)
  /\ [][(call'.op = "getHint" /\ steps' # steps) =>
           /\ hintsUsed = 10 => ret' = NoHint
           /\ ret' = NoHint => (score' = score /\ hintsUsed' = hintsUsed)]_vars

\* getHint has returned none at the limit, on a board that still has an
\* empty cell.
C20_Witness ==
  /\ call.op = "getHint"
  /\ ret = NoHint
  /\ hintsUsed = maxHints
  /\ EmptyCells(board) # {}

\* The string a player types for the digit d.
Typed(d) == <<ToString(d)>>

\* The step is a call of updateCell that wrote cell p of the board.
WroteCell(p) ==
  /\ call'.op = "updateCell"
  /\ steps' # steps
  /\ now' = now
  /\ call'.written
  /\ <<call'.row, call'.col>> = p

\* What completeGame adds to the score in the step, if the step completes
\* the game: 500 less the whole seconds played.
BonusOfStep ==
  IF inflight' # inflight THEN 500 - ((now - startTime) \div 1000) ELSE 0

\* C21: updateCell writing a digit d into an empty cell that is not original
\* adds 5 to the score when no cell of the row, column or box of that cell
\* holds d, and takes 1 off otherwise; d is on the board either way.  A write
\* that completes the game adds the time bonus of completeGame on top.
C21_FirstEntryScore ==
  [][\A p \in Cells : \A d \in Digits :
       (WroteCell(p) /\ call'.value = Typed(d) /\ At(puzzle, p) = Null /\ At(board, p) = Null) =>
          /\ At(board', p) = d
          /\ score' = score + BonusOfStep
                       + (IF \A q \in PeersOf[p] : At(board, q) # d THEN 5 ELSE -1)]_vars

\* A digit has been typed into the one cell a game in progress had left, a
\* peer of the cell holds the digit, and the score is one below what it was.
C21_Witness ==
  /\ call.op = "updateCell"
  /\ call.written
  /\ steps = 1
  /\ hintsUsed = 0
  /\ EmptyCells(board) = {}
  /\ \E d \in Digits :
        /\ call.value = Typed(d)
        /\ board[call.row][call.col] = d
        /\ \E q \in PeersOf[<<call.row, call.col>>] : At(board, q) = d
  /\ score = (Cardinality(EmptyCells(puzzle)) - 1) * 5 - 1

\* No cell of the row, column or box of p holds d on the board, p aside.
FreeAt(p, d) == \A q \in PeersOf[p] : At(board, q) # d

\* C22: updateCell on a cell that is not original and holds a digit o.
\* Typing a different digit d: the score is unchanged when o and d are both
\* free of conflict at the cell, 6 lower when o is and d is not, 5 higher
\* when o is not and d is.  Clearing the cell: 5 lower when o is free of
\* conflict, unchanged when it is not.  A write that completes the game adds
\* the time bonus of completeGame on top.
C22_CorrectionScore ==
  [][\A p \in Cells : \A o \in Digits :
       (WroteCell(p) /\ At(puzzle, p) = Null /\ At(board, p) = o) =>
          /\ \A d \in Digits \ {o} :
                call'.value = Typed(d) =>
                   /\ (FreeAt(p, o) /\ FreeAt(p, d)) => score' = score + BonusOfStep
                   /\ (FreeAt(p, o) /\ ~FreeAt(p, d)) => score' = score - 6
                   /\ (~FreeAt(p, o) /\ FreeAt(p, d)) => score' = score + 5 + BonusOfStep
          /\ call'.value = << >> =>
                /\ At(board', p) = Null
                /\ FreeAt(p, o) => score' = score - 5
                /\ ~FreeAt(p, o) => score' = score]_vars

\* The digit a player had entered without conflict has been replaced by one
\* that a peer holds: the game in progress had one cell left, and the score
\* is 6 below what it was.
C22_Witness ==
  /\ call.op = "updateCell"
  /\ call.written
  /\ steps = 1
  /\ hintsUsed = 0
  /\ Cardinality(EmptyCells(board)) = 1
  /\ \E d \in Digits :
        /\ call.value = Typed(d)
        /\ board[call.row][call.col] = d
        /\ \E q \in PeersOf[<<call.row, call.col>>] : At(board, q) = d
  /\ score = (Cardinality(EmptyCells(puzzle)) - 1) * 5 - 6

\* The step is a call of updateCell or applyHint that leaves the board with
\* no empty cell and nothing for the invalid-cell scan to report.
CompletesGame ==
  /\ \/ call'.op = "updateCell" /\ steps' # steps /\ now' = now /\ call'.written
     \/ call'.op = "applyHint" /\ call' # call
  /\ EmptyCells(board') = {}
  /\ getInvalidCells(board') = << >>

\* C23: when a game that was started completes, endTime is set to the time
\* of the call, the stored isComplete and isCorrect flags are set, and the
\* score gets 500 - floor((endTime - startTime) / 1000) on top of what the
\* move itself scores: nothing for applyHint, 5 for a digit typed into an
\* empty cell, and 5, 0 or -1 for an entry typed over another.  The amount
\* is negative once more than 500 seconds have been played.
C23_CompletionBonus ==
  [][(CompletesGame /\ startTime # Null) =>
       LET bonus == 500 - ((endTime' - startTime) \div 1000)
           p == <<call'.row, call'.col>>
       IN  /\ endTime' = now
           /\ isCompleteFlag'
           /\ isCorrectFlag'
           /\ score' - bonus \in {score + 5, score, score - 1}
           /\ call'.op = "applyHint" => score' = score + bonus
           /\ (call'.op = "updateCell" /\ At(board, p) = Null) => score' = score + 5 + bonus
           /\ (endTime' - startTime >= 501000) => bonus < 0]_vars

\* A game with no hints was completed by typing its last digit more than
\* 500 seconds after its start: the score is 5 per cell filled less the
\* seconds above 500.
C23_Witness ==
  /\ call.op = "updateCell"
  /\ isCompleteFlag
  /\ isCorrectFlag
  /\ endTime = now
  /\ endTime - startTime > 500000
  /\ hintsUsed = 0
  /\ score = Cardinality(EmptyCells(puzzle)) * 5 + 500 - ((endTime - startTime) \div 1000)
  /\ score < Cardinality(EmptyCells(puzzle)) * 5

\* The step is a call of solveBoard.
SolveBoardStep == call'.op = "solveBoard" /\ steps' # steps /\ now' = now

\* C28: a solveBoard whose solveGrid fails leaves board, score, hintsUsed,
\* endTime and the stored flags as they were; one that succeeds replaces the
\* board only, keeps every cell that was not empty, and leaves puzzle, score,
\* hintsUsed, endTime and the stored flags as they were, with no completion
\* and no leaderboard query of its own.
C28_SolveBoardFrame ==
  [][SolveBoardStep =>
       /\ ~call'.solved => board' = board
       /\ call'.solved => \A p \in Cells : At(board, p) # Null => At(board', p) = At(board, p)
       /\ puzzle' = puzzle
       /\ score' = score
       /\ hintsUsed' = hintsUsed
       /\ endTime' = endTime
       /\ isCompleteFlag' = isCompleteFlag
       /\ isCorrectFlag' = isCorrectFlag
       /\ inflight' = inflight]_vars

\* solveBoard has filled the cells a started game had left: the board is
\* full, and the game is not marked complete.
C28_Witness ==
  /\ call.op = "solveBoard"
  /\ call.solved
  /\ steps = 1
  /\ startTime # Null
  /\ EmptyCells(puzzle) # {}
  /\ EmptyCells(board) = {}
  /\ getInvalidCells(board) = << >>
  /\ ~isCompleteFlag
  /\ endTime = Null

\* C29: whenever solveBoard replaces the board, the new board has no empty
\* cell and nothing for the invalid-cell scan to report, conflicting entries
\* of the player on the old board or not.
C29_SolvedBoardIsCorrect ==
  (call.op = "solveBoard" /\ call.solved) =>
     (EmptyCells(board) = {} /\ getInvalidCells(board) = << >>)

CellValues == {Null} \cup Digits

\* C13: board stays a 9x9 grid whose every cell is empty or an integer in
\* 1..9, whatever string updateCell is called with.
C13_BoardCellsInRange ==
  /\ DOMAIN board = Idx
  /\ \A r \in Idx : DOMAIN board[r] = Idx /\ \A c \in Idx : board[r][c] \in CellValues

(***************************************************************************)
(* The leaderboard server on its own: requests of any client, well formed  *)
(* or not, handled one at a time.                                          *)
(***************************************************************************)
MaxRequests == 5

PostedScores == {Num(0), Num(10), Num(30), Str(<<"a">>), Undefined}

PostedTimes == {Num(0), Undefined}

PostedDifficulties == {"beginner", "expert", "easy", ""}

PostedHints == {Num(0), Undefined}

PostBodies ==
  [difficulty : PostedDifficulties, score : PostedScores, time : PostedTimes,
   hintsUsed : PostedHints]

ServerInit ==
  /\ GameInit
  /\ grid = EmptyGrid
  /\ given = EmptyGrid
  /\ call = NoCall
  /\ ret = FALSE

Request ==
  /\ steps < MaxRequests
  /\ steps' = steps + 1
  /\ UNCHANGED <<puzzle, board, difficulty, score, hintsUsed>>
  /\ UNCHANGED <<isTabVisible, timerVars, flagVars, envVars, records, grid, given>>

ServerNext ==
  \/ \E body \in PostBodies : Request /\ PostLeaderboard(body)
  \/ \E d \in PostedDifficulties : Request /\ GetTop(d)
  \/ \E d \in PostedDifficulties : Request /\ GetLeaderboard(d)

SpecServer == ServerInit /\ [][ServerNext]_vars

\* a >= b as the numbers compare: never when one of them is NaN.
scoreGeq(a, b) == a # NaN /\ b # NaN /\ a >= b

\* The step is a POST the server accepted.
AcceptedPost == call'.op = "postLeaderboard" /\ steps' # steps /\ ret'.status = 201

\* The accepted POST left, of the posted tier's records and the new one,
\* the three highest (all of them when there are no more than three), and
\* left every record of the other tiers in place.
KeepsHighestOfTier ==
  LET pushed == Append(leaderboardRecords, ret'.data[1])
      tier == {i \in 1..Len(pushed) : pushed[i].difficulty = ret'.data[1].difficulty}
  IN  \E drop \in SUBSET tier :
        /\ leaderboardRecords' = without(pushed, drop)
        /\ Cardinality(tier \ drop) = (IF Cardinality(tier) < 3 THEN Cardinality(tier) ELSE 3)
        /\ \A i \in drop : \A k \in tier \ drop : scoreGeq(pushed[k].score, pushed[i].score)

\* GET /api/leaderboard/top answered with the stored records of the tier,
\* the higher score first.
TopInOrder ==
  (call.op = "getTop" /\ ret.status = 200) =>
     /\ Len(ret.data) = Len(ofDifficulty(leaderboardRecords, call.difficulty))
     /\ \A k \in 1..Len(ret.data) : ret.data[k].difficulty = call.difficulty
     /\ \A i, j \in 1..Len(ret.data) :
          i < j => scoreGeq(ret.data[i].score, ret.data[j].score)

\* C24: after any accepted POSTs the store holds at most three records of
\* each tier, they are the highest scoring ones posted for the tier, a POST
\* for one tier removes no record of another, and GET /api/leaderboard/top
\* returns the tier's records in non-increasing order of score.
C24_TopThreePerTier ==
  /\ [](\A d \in validDifficulties : Len(ofDifficulty(leaderboardRecords, d)) <= 3)
  /\ [][AcceptedPost => KeepsHighestOfTier]_vars
  /\ []TopInOrder

(***************************************************************************)
(* A session with its leaderboard: a game one cell short of completion,    *)
(* the loadRecords of line 587 awaited, and a server that other players    *)
(* have posted to or not.                                                  *)
(***************************************************************************)
MaxCalls == 2

seeded(d, scores) ==
  [k \in 1..Len(scores) |->
     [id |-> ToString(k), difficulty |-> d, score |-> scores[k], time |-> 60,
      date |-> k, hintsUsed |-> 0]]

\* Nothing posted yet, three low scores, three high ones.
SeededScores == {<< >>, <<20, 30, 10>>, <<700, 900, 800>>}

\* The tiers played and the strings typed in these sessions.
PlayedTiers == {"beginner", "expert"}

TypedStrings == {<<"3">>, <<"5">>}

LeaderboardInit ==
  /\ \E d \in PlayedTiers : \E stream \in SessionStreams : \E h \in {0, maxHints - 1} :
       inProgress(d, generateSudokuPuzzle(d, stream), h, 1)
  /\ \E scores \in SeededScores : leaderboardRecords = seeded(difficulty, scores)
  /\ inflight = <<[pc |-> "loadRecords"]>>
  /\ records = << >>
  /\ grid = EmptyGrid
  /\ given = EmptyGrid
  /\ call = NoCall
  /\ ret = FALSE

Call == steps < MaxCalls /\ steps' = steps + 1

Replies(outcomes) == {Failed} \cup {Answered(o) : o \in outcomes}

LeaderboardNext ==
  \/ \E d \in PlayedTiers : \E stream \in SessionStreams :
        Ready /\ Call /\ StartNewGame(d, stream)
  \/ \E p \in firstCells(EmptyCells(puzzle), 1) : \E value \in TypedStrings :
        Ready /\ Call /\ UpdateCell(p[1], p[2], value)
  \/ Ready /\ Call /\ GetHint
  \/ ~Ready /\ ApplyHint(ret) /\ UNCHANGED steps
  \/ Ready /\ Call /\ ResetBoard
  \/ \E ms \in TickSteps : Ready /\ Call /\ Tick(ms)
  \/ \E i \in 1..Len(inflight) :
        /\ Ready
        /\ inflight[i].pc = "getTopRecords"
        /\ \E reply \in Replies(topOutcomes(leaderboardRecords, inflight[i].difficulty)) :
              GetTopRecordsSettles(i, reply)
  \/ \E i \in 1..Len(inflight) :
        /\ Ready
        /\ inflight[i].pc = "addRecord"
        /\ \/ AddRecordSettles(i, Unreached(leaderboardRecords), FALSE)
           \/ \E o \in postOutcomes(leaderboardRecords, inflight[i].record, now) :
                \E received \in BOOLEAN : AddRecordSettles(i, o, received)
  \/ \E i \in 1..Len(inflight) :
        /\ Ready
        /\ inflight[i].pc = "loadRecords"
        /\ \E reply \in Replies(leaderboardOutcomes(leaderboardRecords, "")) :
              LoadRecordsSettles(i, reply)

SpecLeaderboard == LeaderboardInit /\ [][LeaderboardNext]_vars

\* The record a game with the fields c sends to the server.
recordOf(c) ==
  [difficulty |-> c.difficulty, score |-> Num(c.score), time |-> Num(c.time),
   hintsUsed |-> Num(c.hintsUsed)]

\* C30: the record completeGame submits carries the difficulty, the score,
\* the elapsed time and the hintsUsed the game had when it was completed,
\* whatever the session did while the query for the top records was pending.
C30_SubmitsCompletedGame ==
  \A i \in 1..Len(inflight) :
     inflight[i].pc = "addRecord" => inflight[i].record = recordOf(inflight[i].completed)

\* The step is a leaderboard request of the session settling with a failure.
RequestFails ==
  /\ call'.op \in {"getTopRecords", "addRecord", "loadRecords"}
  /\ inflight' # inflight
  /\ call'.failed

\* C25: a failing leaderboard request stays inside the session: on it
\* getTopRecords returns the empty list, loadRecords leaves records empty,
\* and the game completeGame marked complete keeps its endTime, its
\* isComplete and isCorrect flags and the score with the time bonus.
C25_FailuresStayInside ==
  [][RequestFails =>
       /\ UNCHANGED <<endTime, isCompleteFlag, isCorrectFlag, score>>
       /\ (call'.op = "getTopRecords" => ret' = << >>)
       /\ (call'.op = "loadRecords" => records' = << >>)]_vars

\* A game was completed, its query for the top records failed and so did
\* its submission, the loading before them had succeeded: the game is still
\* marked complete with its bonus.
C25_Witness ==
  /\ call.op = "addRecord"
  /\ call.failed
  /\ call.record = recordOf(call.completed)
  /\ steps = 1
  /\ Len(inflight) = 0
  /\ Len(records) = 3
  /\ Len(leaderboardRecords) = 3
  /\ isCompleteFlag
  /\ isCorrectFlag
  /\ endTime = now
  /\ score = call.completed.score

(***************************************************************************)
(* Further properties of a session.                                        *)
(***************************************************************************)
\* The step runs completeGame: a query for the top records is sent.
RunsCompleteGame == Len(inflight') > Len(inflight)

\* C31: within one game completeGame runs at most once: no updateCell or
\* applyHint runs it on a game whose stored isComplete flag it has set
\* already, the flag being cleared by startNewGame and resetBoard only, so
\* the time bonus and the submission come once.
C31_CompletesOncePerGame == [][RunsCompleteGame => ~isCompleteFlag]_vars

\* C32: whenever the stored isComplete flag is true the board has no empty
\* cell and the invalid-cell scan reports nothing: the stored flag agrees
\* with the computed isComplete and isCorrect.
C32_StoredFlagAgrees ==
  isCompleteFlag => (isComplete(board) /\ getInvalidCells(board) = << >>)

\* C33: updateCell on a cell that is not original, called with the digit the
\* cell holds already, leaves the score as it was (a write that runs
\* completeGame, which adds the time bonus, set aside).
C33_SameDigitKeepsScore ==
  [][\A p \in Cells : \A d \in Digits :
       (/\ WroteCell(p)
        /\ At(puzzle, p) = Null
        /\ At(board, p) = d
        /\ call'.value = Typed(d)
        /\ ~RunsCompleteGame) => score' = score]_vars

(***************************************************************************)
(* A digit placed into an empty cell: the validity updateCell computes     *)
(* before the write (line 419), the write (line 421) and the invalid-cell  *)
(* scan of the board after it.  The boards are those of the scan and       *)
(* nearly empty ones holding up to ScanMaxEdit values, NaN among them.     *)
(***************************************************************************)
MaxPlaced == 2

SparseBoards ==
  UNION { { [r \in Idx |-> [c \in Idx |->
               IF <<r, c>> \in W THEN f[<<r, c>>] ELSE Null]]
            : f \in [W -> Digits \cup {NaN}] }
          : W \in {X \in SUBSET ScanCells : Cardinality(X) <= ScanMaxEdit} }

PlaceInit ==
  /\ puzzle = EmptyGrid
  /\ board \in ScanBoards \cup SparseBoards
  /\ difficulty = "beginner"
  /\ score = 0
  /\ hintsUsed = 0
  /\ grid = EmptyGrid
  /\ given = EmptyGrid
  /\ call = NoCall
  /\ IdleInit
  /\ ret = FALSE

\* isNowValid of line 419, the write of line 421 and the scan that follows.
Place(row, col, num) ==
  /\ steps < MaxPlaced
  /\ board[row][col] = Null
  /\ steps' = steps + 1
  /\ board' = [board EXCEPT ![row][col] = num]
  /\ call' = [op |-> "place", row |-> row, col |-> col, num |-> num,
              isNowValid |-> isValidMove(board, row, col, num)]
  /\ ret' = getInvalidCells([board EXCEPT ![row][col] = num])
  /\ UNCHANGED <<puzzle, difficulty, score, hintsUsed>>
  /\ UNCHANGED <<boardVars, isTabVisible, timerVars, flagVars, envVars, grid, given>>

PlaceNext == \E p \in ScanCells : \E num \in Digits : Place(p[1], p[2], num)

SpecPlace == PlaceInit /\ [][PlaceNext]_vars

\* C34: a digit written into an empty cell puts the cell among the invalid
\* cells exactly when isValidMove rejected the digit there before the write.
C34_ValidityAgreesWithScan ==
  call.op = "place" =>
     (cellKey(<<call.row, call.col>>) \in {ret[i] : i \in 1..Len(ret)} <=> ~call.isNowValid)

\* A digit was placed that only a cell of the same column held: it was
\* rejected and the cell is reported.
C34_Witness ==
  /\ call.op = "place"
  /\ ~call.isNowValid
  /\ cellKey(<<call.row, call.col>>) \in {ret[i] : i \in 1..Len(ret)}
  /\ \A q \in PeersOf[<<call.row, call.col>>] :
        At(board, q) = call.num => (q[2] = call.col /\ q[1] \div 3 # call.row \div 3)

(***************************************************************************)
(* The clock of a session: a fresh session or a game one cell short of     *)
(* completion, paused and continued by the player and by the tab, started  *)
(* again, reset and finished, with time passing between the calls.         *)
(***************************************************************************)
MaxTimerCalls == 4

TimerInit ==
  /\ \/ GameInit
     \/ /\ inProgress("beginner", generateSudokuPuzzle("beginner", <<1, 1>>), 0, 1)
        /\ inflight = << >>
        /\ leaderboardRecords = << >>
        /\ records = << >>
  /\ grid = EmptyGrid
  /\ given = EmptyGrid
  /\ call = NoCall
  /\ ret = FALSE

TimerCall == steps < MaxTimerCalls /\ steps' = steps + 1

TimerNext ==
  \/ \E stream \in SessionStreams : TimerCall /\ StartNewGame("beginner", stream)
  \/ TimerCall /\ ResetBoard
  \/ TimerCall /\ PauseGame
  \/ TimerCall /\ ContinueGame
  \/ \E hidden \in BOOLEAN : TimerCall /\ HandleVisibilityChange(hidden)
  \/ \E p \in firstCells(EmptyCells(board), 1) : TimerCall /\ UpdateCell(p[1], p[2], <<"3">>)
  \/ \E ms \in TickSteps : TimerCall /\ Tick(ms)

SpecTimer == TimerInit /\ [][TimerNext]_vars

\* The step is a call of the operation op, the clock standing still.
CallOf(op) == call'.op = op /\ steps' # steps /\ now' = now

\* The fields of gameState.
stateVars == <<puzzle, board, difficulty, score, hintsUsed, timerVars, flagVars>>

C36_PauseStateConsistent ==
  /\ []((isPaused <=> pauseStartTime # Null) /\ (isPaused => startTime # Null))
  /\ [][((CallOf("pauseGame") \/ (CallOf("handleVisibilityChange") /\ call'.hidden))
          /\ ~(startTime # Null /\ endTime = Null /\ ~isPaused)) =>
             UNCHANGED stateVars]_vars
  /\ [][(CallOf("handleVisibilityChange") /\ ~call'.hidden) =>
          (UNCHANGED stateVars /\ isTabVisible')]_vars

\* The tab was hidden, which paused the game, and shown again later: the
\* game is still paused.
C36_Witness ==
  /\ call.op = "handleVisibilityChange"
  /\ ~call.hidden
  /\ isTabVisible
  /\ isPaused
  /\ pauseStartTime # Null
  /\ pauseStartTime < now
  /\ endTime = Null

\* The scores of the records of difficulty d in store.
scoresOf(store, d) == {store[k].score : k \in {i \in 1..Len(store) : store[i].difficulty = d}}

\* Fewer than three records of the record's difficulty stand in store, or
\* the record's score is above the lowest of them.
Deserves(record, store) ==
  \/ Len(ofDifficulty(store, record.difficulty)) < 3
  \/ \E low \in scoresOf(store, record.difficulty) : jsLess(low, record.score.num)

\* C37: completeGame submits a record only when fewer than three top records
\* exist for the game's difficulty or the score is above the lowest of them;
\* so when no other submission has reached the server since its query, the
\* record it posts is among the records the server holds once the POST is
\* processed.
C37_SubmittedRecordIsRetained ==
  /\ [](\A i \in 1..Len(inflight) :
          inflight[i].pc = "addRecord" => Deserves(inflight[i].record, inflight[i].seen))
  /\ [][(/\ call'.op = "addRecord"
         /\ inflight' # inflight
         /\ call'.status = 201
         /\ call'.seen = leaderboardRecords) =>
            \E k \in 1..Len(leaderboardRecords') :
               leaderboardRecords'[k] = newRecord(call'.record, now)]_vars

\* The body lacks one of the four fields.
Lacks(body) ==
  \/ body.difficulty = ""
  \/ Undefined \in {body.score, body.time, body.hintsUsed}

\* C38: a POST that lacks difficulty, score, time or hintsUsed, or names a
\* difficulty that is none of the four tiers, is answered with 400 and
\* leaves the store as it was; any other, one with a score, time or
\* hintsUsed of 0 included, is accepted with 201.
C38_PostValidation ==
  [][(call'.op = "postLeaderboard" /\ steps' # steps) =>
       IF Lacks(call'.body) \/ call'.body.difficulty \notin Difficulties
       THEN ret'.status = 400 /\ leaderboardRecords' = leaderboardRecords
       ELSE ret'.status = 201]_vars

\* A request with score, time and hintsUsed all 0 was accepted and its
\* record stands in the store.
C38_Witness ==
  /\ call.op = "postLeaderboard"
  /\ call.body.score = Num(0)
  /\ call.body.time = Num(0)
  /\ call.body.hintsUsed = Num(0)
  /\ ret.status = 201
  /\ \E k \in 1..Len(leaderboardRecords) :
        /\ leaderboardRecords[k] = ret.data[1]
        /\ leaderboardRecords[k].score = 0

\* What resetBoard and startNewGame leave alike: nothing scored, no hint
\* used, no end time, the stored flags and the pause cleared, and board a
\* copy of puzzle in an array object of its own.
FreshBoard ==
  /\ board' = puzzle'
  /\ ~shared'
  /\ score' = 0
  /\ hintsUsed' = 0
  /\ endTime' = Null
  /\ ~isCompleteFlag'
  /\ ~isCorrectFlag'
  /\ ~isPaused'
  /\ pauseStartTime' = Null

\* C39: resetBoard makes board a cell-for-cell copy of puzzle, sets score
\* and hintsUsed to 0, clears endTime, the stored flags and the pause, and
\* leaves puzzle and difficulty as they were; startNewGame leaves the same
\* state with the puzzle it generated for the difficulty asked.
C39_ResetAndNewGameFrame ==
  /\ [][CallOf("resetBoard") =>
          (FreshBoard /\ puzzle' = puzzle /\ difficulty' = difficulty)]_vars
  /\ [][CallOf("startNewGame") =>
          /\ FreshBoard
          /\ difficulty' = call'.difficulty
          /\ puzzle' = generateSudokuPuzzle(call'.difficulty, call'.stream).puzzle]_vars

\* A game that was completed has been reset: the board is the puzzle again,
\* with its empty cells, and nothing of the completion is left in gameState.
C39_Witness ==
  /\ call.op = "resetBoard"
  /\ steps = 2
  /\ Len(inflight) = 1
  /\ board = puzzle
  /\ EmptyCells(board) # {}
  /\ score = 0
  /\ endTime = Null
  /\ ~isCompleteFlag
  /\ ~isCorrectFlag

====
